---- MODULE Spec2Model ----
(***************************************************************************)
(* Shared-memory video-frame transport (components/sophgo/video).          *)
(*                                                                         *)
(* One region per channel holds a header (magic, version, write_idx,       *)
(* read_idx, frame_count, dropped_frames, active_readers) and a ring of    *)
(* slots.  A producer publishes frames under a non-blocking write-gate     *)
(* semaphore and posts a read-signal semaphore; consumers attach, poll or  *)
(* wait, and copy the latest slot out.                                     *)
(*                                                                         *)
(* The model keeps the kernel's name tables (shm_open / sem_open names),   *)
(* the kernel objects behind them (regions, semaphores), each process's    *)
(* descriptor, mapping and semaphore-handle tables, the producer and       *)
(* consumer handles, and the position of every thread inside the call it   *)
(* is executing.  Each shared-memory access or system call of a function   *)
(* is one step, so that calls of different threads and processes           *)
(* interleave as they do in the program.                                   *)
(***************************************************************************)
EXTENDS Integers, Sequences, FiniteSets, TLC

(***************************************************************************)
(* Program constants                                                       *)
(***************************************************************************)
VIDEO_SHM_MAGIC == 1447642181        \* 0x56494445

VIDEO_SHM_VERSION == 1

NULL == 0                            \* a zeroed pointer field

SEM_FAILED == 0                      \* ((sem_t *) 0)

MAP_FAILED == -1                     \* ((void *) -1)

(***************************************************************************)
(* Bounds of the model.  The ring, the frame size and the counter width    *)
(* are scaled down from 30 slots, 512 KiB and 2^32.                        *)
(***************************************************************************)
VIDEO_SHM_RING_SIZE == 3

VIDEO_SHM_MAX_FRAME_SIZE == 2

UINT32_MOD == 8                      \* uint32_t arithmetic is modulo this

MaxRegions == 2                      \* shared objects ever created

MaxCalls == 4                        \* publish calls in the concurrent specifications

MaxFd == 4                           \* descriptors 0..MaxFd per process

NThreads == 3                        \* threads publishing on one producer handle

NConsumers == 2

NProducers == 1

Channels == {0}                      \* the channel of the one-channel specifications
Producers == 1..NProducers
Consumers == 1..NConsumers
Threads == 1..NThreads
RegionIds == 1..MaxRegions
SemIds == 1..(2 * MaxRegions)
Slots == 0..(VIDEO_SHM_RING_SIZE - 1)
Fds == 0..MaxFd

NChannels == 2                       \* channel ids with an entry in the name tables

ChannelIds == 0..(NChannels - 1)

NoName == -1                         \* an empty name buffer ("")

NoObj == 0                           \* no object under a name

FD_CLOSED == -1                      \* descriptor table entry: not open

FD_STDIO == 0                        \* descriptor table entry: a standard stream

Max(a, b) == IF a > b THEN a ELSE b

U32(x) == x % UINT32_MOD

(***************************************************************************)
(* Data: metadata record, slot, region                                     *)
(***************************************************************************)
\* video_frame_meta_t.  reserved[] is left out: nothing reads it.
ZeroMeta ==
  [timestamp_ms |-> 0, size |-> 0, sequence |-> 0, is_keyframe |-> 0,
   codec |-> 0, width |-> 0, height |-> 0, fps |-> 0]

ZeroData == [i \in 1..VIDEO_SHM_MAX_FRAME_SIZE |-> 0]

\* video_frame_slot_t.  wmeta and wdata are history: the ordinal (1, 2, ...)
\* of the gate acquisition that last wrote the metadata / the payload.
ZeroSlot == [meta |-> ZeroMeta, data |-> ZeroData, wmeta |-> 0, wdata |-> 0]

\* video_shm_t after ftruncate or memset(0).
ZeroRegion ==
  [magic |-> 0, version |-> 0, write_idx |-> 0, read_idx |-> 0,
   frame_count |-> 0, dropped_frames |-> 0, active_readers |-> 0,
   frames |-> [s \in Slots |-> ZeroSlot]]

\* video_shm_producer_t after memset(0).
ZeroProducer ==
  [shm_fd |-> 0, shm |-> NULL, sem_write |-> SEM_FAILED, sem_read |-> SEM_FAILED,
   sequence |-> 0, channel_id |-> 0,
   shm_name |-> NoName, sem_write_name |-> NoName, sem_read_name |-> NoName]

\* video_shm_consumer_t after memset(0).
ZeroConsumer ==
  [shm_fd |-> 0, shm |-> NULL, sem_write |-> SEM_FAILED, sem_read |-> SEM_FAILED,
   last_sequence |-> 0, reader_id |-> 0, channel_id |-> 0,
   shm_name |-> NoName, sem_write_name |-> NoName, sem_read_name |-> NoName]

\* A process: descriptor table, mappings and semaphore handles it holds.
FreshProc ==
  [fd   |-> [f \in Fds |-> IF f <= 2 THEN FD_STDIO ELSE FD_CLOSED],
   maps |-> [r \in RegionIds |-> 0],
   sems |-> [s \in SemIds |-> 0]]

\* Process of producer handle p / of consumer c.
PidP(p) == p
PidC(c) == NProducers + c
Pids == 1..(NProducers + NConsumers)

VARIABLES
  shmNames,     \* name table of shared objects: channel -> region id or NoObj
  semWNames,    \* name table, write-gate semaphores: channel -> sem id or NoObj
  semRNames,    \* name table, read-signal semaphores
  region,       \* the shared objects: region id -> video_shm_t
  semVal,       \* the semaphores: sem id -> value
  nextRegion,   \* next unused region id
  nextSem,      \* next unused semaphore id
  proc,         \* per process: descriptors, mappings, semaphore handles
  hProd,        \* producer handles
  hCons,        \* consumer handles
  ppc,          \* per producer handle: position of the thread in init/destroy
  pub,          \* per publishing thread: position and locals in video_shm_producer_write
  con,          \* per consumer: position and locals of the call it is in
  hist          \* history counters the properties read

vars == <<shmNames, semWNames, semRNames, region, semVal, nextRegion, nextSem,
          proc, hProd, hCons, ppc, pub, con, hist>>

kernel == <<shmNames, semWNames, semRNames, region, semVal, nextRegion, nextSem>>

\* A publishing thread: the arguments of its call (dnull / mnull: the data /
\* meta pointer is null), its locals, and the value its last call returned.
\* ord is history: the ordinal of this call's gate acquisition.
IdlePub ==
  [pc |-> "idle", h |-> NULL, dnull |-> FALSE, mnull |-> FALSE, size |-> 0,
   data |-> ZeroData, meta |-> ZeroMeta, idx |-> 0, tmp |-> 0, ord |-> 0, ret |-> 0]

\* A consumer: the call it is in (op), its position, its locals, the caller's
\* output buffers (meta, data; total, dropped, missed) and the value its last
\* call returned.  History: wmeta / wdata0, the writers of the slot's
\* metadata / payload when the metadata was copied; wmeta1 / wdata, the same
\* when the payload was copied; acq0 / acq1, the gate acquisitions on the
\* region when frame_count was sampled / when the copy ended; fc0, the
\* frame_count stores on the region when frame_count was sampled; posts0,
\* the read-signal posts on the region when a wait was entered; seen0,
\* last_sequence when frame_count was sampled.  errno is
\* the error of the semaphore wait that failed in the call ("none": none).
IdleCon ==
  [pc |-> "idle", op |-> "none", tmo |-> 0, cur |-> 0, idx |-> 0,
   meta |-> ZeroMeta, data |-> ZeroData, total |-> 0, dropped |-> 0, missed |-> 0,
   wmeta |-> 0, wdata0 |-> 0, wmeta1 |-> 0, wdata |-> 0, acq0 |-> 0, acq1 |-> 0,
   fc0 |-> 0, posts0 |-> 0, seen0 |-> 0, errno |-> "none", ret |-> 0]

\* History, per region: gate acquisitions, failed gate attempts, completed
\* slot fills, write_idx stores, frame_count stores, gate releases,
\* read-signal posts, returned drops, consumer inits that returned 0 and
\* consumer destroys of a handle on the region; calls: the publish calls,
\* over all regions, that passed the argument checks; opens: the consumer
\* inits that opened a region; att, per consumer: the frame_count stores on
\* its region before it sampled frame_count in init; seen, per consumer: the
\* frame_count stores on its region before the sample it last stored in
\* last_sequence (in init or in a read); posted and taken, per semaphore: the
\* sem_post calls of publishes on it and the semaphore waits of
\* video_shm_consumer_wait that took a token of it; entry, per process: what
\* the process had open when its last init call was entered; got, per
\* consumer: the publish (ordinal of its gate acquisition, 0 for none) whose
\* metadata its last read since the attach copied out, and the sequence
\* number that read returned.
NoFrame == [frame |-> 0, sequence |-> 0]

ZeroRegHist ==
  [acquired |-> 0, busy |-> 0, filled |-> 0, widx |-> 0, fc |-> 0, released |-> 0,
   posts |-> 0, dropped |-> 0, inits |-> 0, destroys |-> 0]

ZeroHist ==
  [calls |-> 0, opens |-> 0, reg |-> [r \in RegionIds |-> ZeroRegHist],
   att |-> [c \in 1..NConsumers |-> 0], seen |-> [c \in 1..NConsumers |-> 0],
   posted |-> [s \in SemIds |-> 0], taken |-> [s \in SemIds |-> 0],
   entry |-> [pr \in Pids |-> FreshProc],
   got |-> [c \in 1..NConsumers |-> NoFrame]]

Init ==
  /\ shmNames = [ch \in ChannelIds |-> NoObj]
  /\ semWNames = [ch \in ChannelIds |-> NoObj]
  /\ semRNames = [ch \in ChannelIds |-> NoObj]
  /\ region = [r \in RegionIds |-> ZeroRegion]
  /\ semVal = [s \in SemIds |-> 0]
  /\ nextRegion = 1
  /\ nextSem = 1
  /\ proc = [pr \in Pids |-> FreshProc]
  /\ hProd = [p \in Producers |-> ZeroProducer]
  /\ hCons = [c \in Consumers |-> ZeroConsumer]
  /\ ppc = [p \in Producers |-> [pc |-> "idle", ret |-> 0]]
  /\ pub = [t \in Threads |-> IdlePub]
  /\ con = [c \in Consumers |-> IdleCon]
  /\ hist = ZeroHist

(***************************************************************************)
(* Kernel and process-table helpers                                        *)
(***************************************************************************)
HasFreeFd(pr) == \E f \in Fds : proc[pr].fd[f] = FD_CLOSED

\* open() hands out the lowest descriptor that is not open.
LowestFreeFd(pr) ==
  CHOOSE f \in Fds : /\ proc[pr].fd[f] = FD_CLOSED
                     /\ \A g \in Fds : g < f => proc[pr].fd[g] # FD_CLOSED

\* close(fd): closes whatever the descriptor table holds under that number.
CloseFd(fdt, f) == IF f \in Fds THEN [fdt EXCEPT ![f] = FD_CLOSED] ELSE fdt

\* munmap(addr): drops one mapping of the region at that address, if any.
Unmap(maps, r) ==
  IF r \in RegionIds /\ maps[r] > 0 THEN [maps EXCEPT ![r] = @ - 1] ELSE maps

\* sem_close(handle)
SemClose(sems, s) ==
  IF s \in SemIds /\ sems[s] > 0 THEN [sems EXCEPT ![s] = @ - 1] ELSE sems

\* An unlink that removes nothing.
UnlinkNothing(names, n) == names

\* shm_unlink / sem_unlink on a name table; an empty name removes nothing.
Unlink(names, n) == IF n \in DOMAIN names THEN [names EXCEPT ![n] = NoObj] ELSE names

\* No publish is executing on producer handle p.
NoPublishOn(p) == \A t \in Threads : pub[t].pc = "idle" \/ pub[t].h # p

PSet(p, pc, ret) == ppc' = [ppc EXCEPT ![p] = [pc |-> pc, ret |-> ret]]

(***************************************************************************)
(* video_shm_producer_init_channel                                         *)
(***************************************************************************)
\* An init without the shm_unlink of line 49: the object under the name
\* stays, and shm_open opens it.
PInitBeginKeepsRegion(p, ch) ==
  /\ ppc[p].pc = "idle"
  /\ NoPublishOn(p)
  /\ nextRegion <= MaxRegions
  /\ hProd' = [hProd EXCEPT ![p] =
        [ZeroProducer EXCEPT !.channel_id = ch, !.shm_name = ch,
                             !.sem_write_name = ch, !.sem_read_name = ch]]
  /\ PSet(p, "i_open", 0)
  /\ hist' = [hist EXCEPT !.entry[PidP(p)] = proc[PidP(p)]]
  /\ UNCHANGED <<kernel, proc, hCons, pub, con>>

\* Lines 37-49: clear the handle, build the names, unlink a stale region.
PInitBegin(p, ch) ==
  /\ ppc[p].pc = "idle"
  /\ NoPublishOn(p)
  /\ nextRegion <= MaxRegions
  /\ hProd' = [hProd EXCEPT ![p] =
        [ZeroProducer EXCEPT !.channel_id = ch, !.shm_name = ch,
                             !.sem_write_name = ch, !.sem_read_name = ch]]
  /\ shmNames' = Unlink(shmNames, ch)
  /\ PSet(p, "i_open", 0)
  /\ hist' = [hist EXCEPT !.entry[PidP(p)] = proc[PidP(p)]]
  /\ UNCHANGED <<semWNames, semRNames, region, semVal, nextRegion, nextSem,
                 proc, hCons, pub, con>>

\* Line 51: shm_open(O_CREAT | O_RDWR) opens the object under the name, or
\* creates it.
PInitShmOpen(p) ==
  /\ ppc[p].pc = "i_open"
  /\ HasFreeFd(PidP(p))
  /\ LET n == hProd[p].shm_name
         exists == shmNames[n] # NoObj
         r == IF exists THEN shmNames[n] ELSE nextRegion
         f == LowestFreeFd(PidP(p))
     IN /\ exists \/ nextRegion <= MaxRegions
        /\ shmNames' = [shmNames EXCEPT ![n] = r]
        /\ nextRegion' = IF exists THEN nextRegion ELSE nextRegion + 1
        /\ region' = IF exists THEN region ELSE [region EXCEPT ![r] = ZeroRegion]
        /\ proc' = [proc EXCEPT ![PidP(p)].fd[f] = r]
        /\ hProd' = [hProd EXCEPT ![p].shm_fd = f]
  /\ PSet(p, "i_map", 0)
  /\ UNCHANGED <<semWNames, semRNames, semVal, nextSem, hCons, pub, con, hist>>

\* Lines 52-55: shm_open failed.
PInitShmOpenFail(p) ==
  /\ ppc[p].pc = "i_open"
  /\ hProd' = [hProd EXCEPT ![p].shm_fd = -1]
  /\ PSet(p, "idle", -1)
  /\ UNCHANGED <<kernel, proc, hCons, pub, con, hist>>

\* Lines 58-63: ftruncate failed.
PInitFtruncateFail(p) ==
  /\ ppc[p].pc = "i_map"
  /\ proc' = [proc EXCEPT ![PidP(p)].fd = CloseFd(@, hProd[p].shm_fd)]
  /\ shmNames' = Unlink(shmNames, hProd[p].shm_name)
  /\ PSet(p, "idle", -1)
  /\ UNCHANGED <<semWNames, semRNames, region, semVal, nextRegion, nextSem,
                 hProd, hCons, pub, con, hist>>

\* Lines 66-74: mmap failed.
PInitMmapFail(p) ==
  /\ ppc[p].pc = "i_map"
  /\ hProd' = [hProd EXCEPT ![p].shm = MAP_FAILED]
  /\ proc' = [proc EXCEPT ![PidP(p)].fd = CloseFd(@, hProd[p].shm_fd)]
  /\ shmNames' = Unlink(shmNames, hProd[p].shm_name)
  /\ PSet(p, "idle", -1)
  /\ UNCHANGED <<semWNames, semRNames, region, semVal, nextRegion, nextSem,
                 hCons, pub, con, hist>>

\* Lines 58 and 66-68: ftruncate and mmap succeed.
PInitMap(p) ==
  /\ ppc[p].pc = "i_map"
  /\ LET r == proc[PidP(p)].fd[hProd[p].shm_fd]
     IN /\ hProd' = [hProd EXCEPT ![p].shm = r]
        /\ proc' = [proc EXCEPT ![PidP(p)].maps[r] = @ + 1]
  /\ PSet(p, "i_zero", 0)
  /\ UNCHANGED <<kernel, hCons, pub, con, hist>>

\* Line 77: memset(producer->shm, 0, sizeof(video_shm_t)).
PInitZero(p) ==
  /\ ppc[p].pc = "i_zero"
  /\ region' = [region EXCEPT ![hProd[p].shm] = ZeroRegion]
  /\ PSet(p, "i_magic", 0)
  /\ UNCHANGED <<shmNames, semWNames, semRNames, semVal, nextRegion, nextSem,
                 proc, hProd, hCons, pub, con, hist>>

\* Line 78.
PInitMagic(p) ==
  /\ ppc[p].pc = "i_magic"
  /\ region' = [region EXCEPT ![hProd[p].shm].magic = VIDEO_SHM_MAGIC]
  /\ PSet(p, "i_version", 0)
  /\ UNCHANGED <<shmNames, semWNames, semRNames, semVal, nextRegion, nextSem,
                 proc, hProd, hCons, pub, con, hist>>

\* Init without line 79: the version is left as memset wrote it.
PInitVersionSkipped(p) ==
  /\ ppc[p].pc = "i_version"
  /\ PSet(p, "i_unlink_w", 0)
  /\ UNCHANGED <<kernel, proc, hProd, hCons, pub, con, hist>>

\* Line 79.
PInitVersion(p) ==
  /\ ppc[p].pc = "i_version"
  /\ region' = [region EXCEPT ![hProd[p].shm].version = VIDEO_SHM_VERSION]
  /\ PSet(p, "i_unlink_w", 0)
  /\ UNCHANGED <<shmNames, semWNames, semRNames, semVal, nextRegion, nextSem,
                 proc, hProd, hCons, pub, con, hist>>

\* Init without line 82: a write-gate left under the name is kept.
PInitUnlinkWSkipped(p) ==
  /\ ppc[p].pc = "i_unlink_w"
  /\ PSet(p, "i_unlink_r", 0)
  /\ UNCHANGED <<kernel, proc, hProd, hCons, pub, con, hist>>

\* Line 82: sem_unlink(sem_write_name).
PInitUnlinkW(p) ==
  /\ ppc[p].pc = "i_unlink_w"
  /\ semWNames' = Unlink(semWNames, hProd[p].sem_write_name)
  /\ PSet(p, "i_unlink_r", 0)
  /\ UNCHANGED <<shmNames, semRNames, region, semVal, nextRegion, nextSem,
                 proc, hProd, hCons, pub, con, hist>>

\* Line 83: sem_unlink(sem_read_name).
PInitUnlinkR(p) ==
  /\ ppc[p].pc = "i_unlink_r"
  /\ semRNames' = Unlink(semRNames, hProd[p].sem_read_name)
  /\ PSet(p, "i_sem_w", 0)
  /\ UNCHANGED <<shmNames, semWNames, region, semVal, nextRegion, nextSem,
                 proc, hProd, hCons, pub, con, hist>>

\* Line 85: sem_open(sem_write_name, O_CREAT, 0666, 1).  An existing
\* semaphore is opened as it is; a new one starts at 1.
PInitSemOpenW(p) ==
  /\ ppc[p].pc = "i_sem_w"
  /\ LET n == hProd[p].sem_write_name
         exists == semWNames[n] # NoObj
         s == IF exists THEN semWNames[n] ELSE nextSem
     IN /\ exists \/ nextSem \in SemIds
        /\ semWNames' = [semWNames EXCEPT ![n] = s]
        /\ nextSem' = IF exists THEN nextSem ELSE nextSem + 1
        /\ semVal' = IF exists THEN semVal ELSE [semVal EXCEPT ![s] = 1]
        /\ proc' = [proc EXCEPT ![PidP(p)].sems[s] = @ + 1]
        /\ hProd' = [hProd EXCEPT ![p].sem_write = s]
  /\ PSet(p, "i_sem_r", 0)
  /\ UNCHANGED <<shmNames, semRNames, region, nextRegion, hCons, pub, con, hist>>

\* Lines 86-92: sem_open of the write-gate failed.
PInitSemOpenWFail(p) ==
  /\ ppc[p].pc = "i_sem_w"
  /\ proc' = [proc EXCEPT ![PidP(p)].maps = Unmap(@, hProd[p].shm),
                          ![PidP(p)].fd = CloseFd(@, hProd[p].shm_fd)]
  /\ shmNames' = Unlink(shmNames, hProd[p].shm_name)
  /\ PSet(p, "idle", -1)
  /\ UNCHANGED <<semWNames, semRNames, region, semVal, nextRegion, nextSem,
                 hProd, hCons, pub, con, hist>>

\* Line 94: sem_open(sem_read_name, O_CREAT, 0666, 0); init returns 0.
PInitSemOpenR(p) ==
  /\ ppc[p].pc = "i_sem_r"
  /\ LET n == hProd[p].sem_read_name
         exists == semRNames[n] # NoObj
         s == IF exists THEN semRNames[n] ELSE nextSem
     IN /\ exists \/ nextSem \in SemIds
        /\ semRNames' = [semRNames EXCEPT ![n] = s]
        /\ nextSem' = IF exists THEN nextSem ELSE nextSem + 1
        /\ semVal' = IF exists THEN semVal ELSE [semVal EXCEPT ![s] = 0]
        /\ proc' = [proc EXCEPT ![PidP(p)].sems[s] = @ + 1]
        /\ hProd' = [hProd EXCEPT ![p].sem_read = s]
  /\ PSet(p, "idle", 0)
  /\ UNCHANGED <<shmNames, semWNames, region, nextRegion, hCons, pub, con, hist>>

\* Lines 95-103: sem_open of the read-signal failed.
PInitSemOpenRFail(p) ==
  /\ ppc[p].pc = "i_sem_r"
  /\ proc' = [proc EXCEPT ![PidP(p)].sems = SemClose(@, hProd[p].sem_write),
                          ![PidP(p)].maps = Unmap(@, hProd[p].shm),
                          ![PidP(p)].fd = CloseFd(@, hProd[p].shm_fd)]
  /\ semWNames' = Unlink(semWNames, hProd[p].sem_write_name)
  /\ shmNames' = Unlink(shmNames, hProd[p].shm_name)
  /\ PSet(p, "idle", -1)
  /\ UNCHANGED <<semRNames, region, semVal, nextRegion, nextSem,
                 hProd, hCons, pub, con, hist>>

\* The steps of a producer init that meets no failure of the system.
PInitStep(p) ==
  \/ PInitShmOpen(p)
  \/ PInitMap(p)
  \/ PInitZero(p)
  \/ PInitMagic(p)
  \/ PInitVersion(p)
  \/ PInitUnlinkW(p)
  \/ PInitUnlinkR(p)
  \/ PInitSemOpenW(p)
  \/ PInitSemOpenR(p)

\* The failures the system may answer an init call with.
PInitFail(p) ==
  \/ PInitShmOpenFail(p)
  \/ PInitFtruncateFail(p)
  \/ PInitMmapFail(p)
  \/ PInitSemOpenWFail(p)
  \/ PInitSemOpenRFail(p)

(***************************************************************************)
(* video_shm_producer_write                                                *)
(***************************************************************************)
\* The handle is one a caller may publish on: zeroed, or initialised with
\* its region mapped and both semaphores open, and not inside init/destroy.
ProducerCallable(h) ==
  /\ ppc[h].pc = "idle"
  /\ \/ hProd[h].shm = NULL
     \/ /\ hProd[h].shm \in RegionIds
        /\ proc[PidP(h)].maps[hProd[h].shm] > 0
        /\ hProd[h].sem_write \in SemIds
        /\ hProd[h].sem_read \in SemIds

\* Line 120: !producer || !producer->shm || !data || !meta
WriteArgsInvalid(h, dnull, mnull) ==
  IF h = NULL THEN TRUE ELSE (hProd[h].shm = NULL \/ dnull \/ mnull)

\* The size check off by one: it lets VIDEO_SHM_MAX_FRAME_SIZE + 1 through.
FrameTooLargeOffByOne(size) == size > VIDEO_SHM_MAX_FRAME_SIZE + 1

\* Line 125: size > VIDEO_SHM_MAX_FRAME_SIZE
FrameTooLarge(size) == size > VIDEO_SHM_MAX_FRAME_SIZE

\* Line 131: sem_trywait succeeds when the semaphore is positive.
TryWaitOk(s) == semVal[s] > 0

\* The gated section with frame_count advanced before the payload is copied.
PubNextPcCountFirst(pc) ==
  CASE pc = "fill_meta"   -> "fc_load"
    [] pc = "fc_load"     -> "fc_store"
    [] pc = "fc_store"    -> "fill_data"
    [] pc = "fill_data"   -> "widx_load"
    [] pc = "widx_load"   -> "widx_store"
    [] pc = "widx_store"  -> "post_write"
    [] pc = "post_write"  -> "post_read"
    [] pc = "post_read"   -> "idle"

\* The gated section with the write-gate posted before the increments.
PubNextPcReleaseEarly(pc) ==
  CASE pc = "fill_meta"   -> "fill_data"
    [] pc = "fill_data"   -> "post_write"
    [] pc = "post_write"  -> "widx_load"
    [] pc = "widx_load"   -> "widx_store"
    [] pc = "widx_store"  -> "fc_load"
    [] pc = "fc_load"     -> "fc_store"
    [] pc = "fc_store"    -> "post_read"
    [] pc = "post_read"   -> "idle"

\* The order of the statements of the gated section, lines 137-160: the
\* position that follows each position.
PubNextPc(pc) ==
  CASE pc = "fill_meta"   -> "fill_data"
    [] pc = "fill_data"   -> "widx_load"
    [] pc = "widx_load"   -> "widx_store"
    [] pc = "widx_store"  -> "fc_load"
    [] pc = "fc_load"     -> "fc_store"
    [] pc = "fc_store"    -> "post_write"
    [] pc = "post_write"  -> "post_read"
    [] pc = "post_read"   -> "idle"

\* The first statement after a successful sem_trywait.
PubFirstPc == "fill_meta"

\* memcpy(dst, src, n) on payload buffers.
Memcpy(dst, src, n) ==
  [i \in 1..VIDEO_SHM_MAX_FRAME_SIZE |-> IF i <= n THEN src[i] ELSE dst[i]]

\* The metadata stored without line 143: the caller's sequence is kept.
SlotMetaCallerSequence(meta, size, seq, now) ==
  [meta EXCEPT !.size = size,
               !.timestamp_ms = IF meta.timestamp_ms = 0 THEN now ELSE @]

\* The metadata stored without line 144: the caller's size field is kept.
SlotMetaCallerSize(meta, size, seq, now) ==
  [meta EXCEPT !.sequence = seq,
               !.timestamp_ms = IF meta.timestamp_ms = 0 THEN now ELSE @]

\* Lines 142-148: the metadata the producer stores for a call.
SlotMeta(meta, size, seq, now) ==
  [meta EXCEPT !.sequence = seq, !.size = size,
               !.timestamp_ms = IF meta.timestamp_ms = 0 THEN now ELSE @]

PubRegion(t) == hProd[pub[t].h].shm

HistReg(r, f, v) == hist' = [hist EXCEPT !.reg[r][f] = v]

\* Lines 120-128: a call with invalid arguments returns -1.
PubReject(t, h, dnull, mnull, size) ==
  /\ pub[t].pc = "idle"
  /\ IF h = NULL THEN TRUE ELSE ProducerCallable(h)
  /\ IF WriteArgsInvalid(h, dnull, mnull) THEN TRUE ELSE FrameTooLarge(size)
  /\ pub' = [pub EXCEPT ![t] = [IdlePub EXCEPT !.h = h, !.dnull = dnull,
                                  !.mnull = mnull, !.size = size, !.ret = -1]]
  /\ UNCHANGED <<kernel, proc, hProd, hCons, ppc, con, hist>>

\* Line 131, sem_trywait succeeded: the thread holds the write-gate.
PubAcquire(t, h, dnull, mnull, size, data, meta) ==
  /\ pub[t].pc = "idle"
  /\ h # NULL /\ ProducerCallable(h)
  /\ ~WriteArgsInvalid(h, dnull, mnull)
  /\ ~FrameTooLarge(size)
  /\ TryWaitOk(hProd[h].sem_write)
  /\ semVal' = [semVal EXCEPT ![hProd[h].sem_write] = @ - 1]
  /\ LET r == hProd[h].shm
     IN /\ pub' = [pub EXCEPT ![t] = [IdlePub EXCEPT !.pc = PubFirstPc, !.h = h,
                      !.dnull = dnull, !.mnull = mnull, !.size = size, !.data = data, !.meta = meta,
                      !.ord = hist.reg[r].acquired + 1]]
        /\ hist' = [hist EXCEPT !.calls = @ + 1, !.reg[r].acquired = @ + 1]
  /\ UNCHANGED <<shmNames, semWNames, semRNames, region, nextRegion, nextSem,
                 proc, hProd, hCons, ppc, con>>

\* A publish that waits for the write-gate (sem_wait) when it is taken.
PubBusyWaits(t, h, dnull, mnull, size, data, meta) ==
  /\ pub[t].pc = "idle"
  /\ h # NULL /\ ProducerCallable(h)
  /\ ~WriteArgsInvalid(h, dnull, mnull)
  /\ ~FrameTooLarge(size)
  /\ ~TryWaitOk(hProd[h].sem_write)
  /\ pub' = [pub EXCEPT ![t] = [IdlePub EXCEPT !.pc = "gate_wait", !.h = h,
                !.dnull = dnull, !.mnull = mnull, !.size = size, !.data = data, !.meta = meta]]
  /\ hist' = [hist EXCEPT !.calls = @ + 1, !.reg[hProd[h].shm].busy = @ + 1]
  /\ UNCHANGED <<kernel, proc, hProd, hCons, ppc, con>>

\* Line 131, sem_trywait failed: the gate is held.
PubBusy(t, h, dnull, mnull, size, data, meta) ==
  /\ pub[t].pc = "idle"
  /\ h # NULL /\ ProducerCallable(h)
  /\ ~WriteArgsInvalid(h, dnull, mnull)
  /\ ~FrameTooLarge(size)
  /\ ~TryWaitOk(hProd[h].sem_write)
  /\ pub' = [pub EXCEPT ![t] = [IdlePub EXCEPT !.pc = "drop_load", !.h = h,
                !.dnull = dnull, !.mnull = mnull, !.size = size, !.data = data, !.meta = meta]]
  /\ hist' = [hist EXCEPT !.calls = @ + 1, !.reg[hProd[h].shm].busy = @ + 1]
  /\ UNCHANGED <<kernel, proc, hProd, hCons, ppc, con>>

\* Line 133, producer->shm->dropped_frames++: the load.
PubDropLoad(t) ==
  /\ pub[t].pc = "drop_load"
  /\ pub' = [pub EXCEPT ![t].tmp = region[PubRegion(t)].dropped_frames,
                        ![t].pc = "drop_store"]
  /\ UNCHANGED <<kernel, proc, hProd, hCons, ppc, con, hist>>

\* A drop path that counts the dropped frame in frame_count.
PubDropStoreAsFrame(t) ==
  /\ pub[t].pc = "drop_store"
  /\ region' = [region EXCEPT ![PubRegion(t)].frame_count = U32(@ + 1)]
  /\ pub' = [pub EXCEPT ![t] = [IdlePub EXCEPT !.ret = 0]]
  /\ HistReg(PubRegion(t), "dropped", hist.reg[PubRegion(t)].dropped + 1)
  /\ UNCHANGED <<shmNames, semWNames, semRNames, semVal, nextRegion, nextSem,
                 proc, hProd, hCons, ppc, con>>

\* A drop path that takes a sequence number without holding the gate.
PubDropStoreTakesSequence(t) ==
  /\ pub[t].pc = "drop_store"
  /\ region' = [region EXCEPT ![PubRegion(t)].dropped_frames = U32(pub[t].tmp + 1)]
  /\ hProd' = [hProd EXCEPT ![pub[t].h].sequence = U32(@ + 1)]
  /\ pub' = [pub EXCEPT ![t] = [IdlePub EXCEPT !.ret = 0]]
  /\ HistReg(PubRegion(t), "dropped", hist.reg[PubRegion(t)].dropped + 1)
  /\ UNCHANGED <<shmNames, semWNames, semRNames, semVal, nextRegion, nextSem,
                 proc, hCons, ppc, con>>

\* Line 133, the store; line 134, return 0.
PubDropStore(t) ==
  /\ pub[t].pc = "drop_store"
  /\ region' = [region EXCEPT ![PubRegion(t)].dropped_frames = U32(pub[t].tmp + 1)]
  /\ pub' = [pub EXCEPT ![t] = [IdlePub EXCEPT !.ret = 0]]
  /\ HistReg(PubRegion(t), "dropped", hist.reg[PubRegion(t)].dropped + 1)
  /\ UNCHANGED <<shmNames, semWNames, semRNames, semVal, nextRegion, nextSem,
                 proc, hProd, hCons, ppc, con>>

\* Lines 138-148: pick the slot, store the metadata, take a sequence number.
PubFillMeta(t, now) ==
  /\ pub[t].pc = "fill_meta"
  /\ LET r == PubRegion(t)
         idx == region[r].write_idx % VIDEO_SHM_RING_SIZE
     IN /\ region' = [region EXCEPT
              ![r].frames[idx].meta =
                 SlotMeta(pub[t].meta, pub[t].size, hProd[pub[t].h].sequence, now),
              ![r].frames[idx].wmeta = pub[t].ord]
        /\ pub' = [pub EXCEPT ![t].idx = idx, ![t].pc = PubNextPc("fill_meta")]
  /\ hProd' = [hProd EXCEPT ![pub[t].h].sequence = U32(@ + 1)]
  /\ UNCHANGED <<shmNames, semWNames, semRNames, semVal, nextRegion, nextSem,
                 proc, hCons, ppc, con, hist>>

\* Lines 138-142 on their own: pick the slot and memcpy the caller's
\* metadata into it; the slot holds the caller's size and sequence fields
\* until lines 143-144 run.
PubCopyMeta(t) ==
  /\ pub[t].pc = "fill_meta"
  /\ LET r == PubRegion(t)
         idx == region[r].write_idx % VIDEO_SHM_RING_SIZE
     IN /\ region' = [region EXCEPT ![r].frames[idx].meta = pub[t].meta,
                                    ![r].frames[idx].wmeta = pub[t].ord]
        /\ pub' = [pub EXCEPT ![t].idx = idx, ![t].pc = "stamp_meta"]
  /\ UNCHANGED <<shmNames, semWNames, semRNames, semVal, nextRegion, nextSem,
                 proc, hProd, hCons, ppc, con, hist>>

\* Lines 143-148 on their own: the sequence number, the size and the
\* timestamp are stored in the slot's metadata.
PubStampMeta(t, now) ==
  /\ pub[t].pc = "stamp_meta"
  /\ LET r == PubRegion(t)
     IN region' = [region EXCEPT
          ![r].frames[pub[t].idx].meta =
             SlotMeta(@, pub[t].size, hProd[pub[t].h].sequence, now)]
  /\ pub' = [pub EXCEPT ![t].pc = PubNextPc("fill_meta")]
  /\ hProd' = [hProd EXCEPT ![pub[t].h].sequence = U32(@ + 1)]
  /\ UNCHANGED <<shmNames, semWNames, semRNames, semVal, nextRegion, nextSem,
                 proc, hCons, ppc, con, hist>>

\* Line 150: memcpy(slot->data, data, size).
PubFillData(t) ==
  /\ pub[t].pc = "fill_data"
  /\ LET r == PubRegion(t)
     IN /\ region' = [region EXCEPT
              ![r].frames[pub[t].idx].data = Memcpy(@, pub[t].data, pub[t].size),
              ![r].frames[pub[t].idx].wdata = pub[t].ord]
        /\ HistReg(r, "filled", hist.reg[r].filled + 1)
  /\ pub' = [pub EXCEPT ![t].pc = PubNextPc("fill_data")]
  /\ UNCHANGED <<shmNames, semWNames, semRNames, semVal, nextRegion, nextSem,
                 proc, hProd, hCons, ppc, con>>

\* Line 153, producer->shm->write_idx++: the load.
PubLoadWriteIdx(t) ==
  /\ pub[t].pc = "widx_load"
  /\ pub' = [pub EXCEPT ![t].tmp = region[PubRegion(t)].write_idx,
                        ![t].pc = PubNextPc("widx_load")]
  /\ UNCHANGED <<kernel, proc, hProd, hCons, ppc, con, hist>>

\* A write_idx kept within the ring: stored modulo RING_SIZE.
PubStoreWriteIdxInRing(t) ==
  /\ pub[t].pc = "widx_store"
  /\ region' = [region EXCEPT ![PubRegion(t)].write_idx =
                                 (pub[t].tmp + 1) % VIDEO_SHM_RING_SIZE]
  /\ pub' = [pub EXCEPT ![t].pc = PubNextPc("widx_store")]
  /\ HistReg(PubRegion(t), "widx", hist.reg[PubRegion(t)].widx + 1)
  /\ UNCHANGED <<shmNames, semWNames, semRNames, semVal, nextRegion, nextSem,
                 proc, hProd, hCons, ppc, con>>

\* Line 153, the store.
PubStoreWriteIdx(t) ==
  /\ pub[t].pc = "widx_store"
  /\ region' = [region EXCEPT ![PubRegion(t)].write_idx = U32(pub[t].tmp + 1)]
  /\ pub' = [pub EXCEPT ![t].pc = PubNextPc("widx_store")]
  /\ HistReg(PubRegion(t), "widx", hist.reg[PubRegion(t)].widx + 1)
  /\ UNCHANGED <<shmNames, semWNames, semRNames, semVal, nextRegion, nextSem,
                 proc, hProd, hCons, ppc, con>>

\* Line 154, producer->shm->frame_count++: the load.
PubLoadFrameCount(t) ==
  /\ pub[t].pc = "fc_load"
  /\ pub' = [pub EXCEPT ![t].tmp = region[PubRegion(t)].frame_count,
                        ![t].pc = PubNextPc("fc_load")]
  /\ UNCHANGED <<kernel, proc, hProd, hCons, ppc, con, hist>>

\* Line 154, the store.
PubStoreFrameCount(t) ==
  /\ pub[t].pc = "fc_store"
  /\ region' = [region EXCEPT ![PubRegion(t)].frame_count = U32(pub[t].tmp + 1)]
  /\ pub' = [pub EXCEPT ![t].pc = PubNextPc("fc_store")]
  /\ HistReg(PubRegion(t), "fc", hist.reg[PubRegion(t)].fc + 1)
  /\ UNCHANGED <<shmNames, semWNames, semRNames, semVal, nextRegion, nextSem,
                 proc, hProd, hCons, ppc, con>>

\* Line 157: sem_post(producer->sem_write).
PubPostWrite(t) ==
  /\ pub[t].pc = "post_write"
  /\ semVal' = [semVal EXCEPT ![hProd[pub[t].h].sem_write] = @ + 1]
  /\ pub' = [pub EXCEPT ![t].pc = PubNextPc("post_write")]
  /\ HistReg(PubRegion(t), "released", hist.reg[PubRegion(t)].released + 1)
  /\ UNCHANGED <<shmNames, semWNames, semRNames, region, nextRegion, nextSem,
                 proc, hProd, hCons, ppc, con>>

\* Line 158: sem_post(producer->sem_read); line 160: return 0.
PubPostRead(t) ==
  /\ pub[t].pc = "post_read"
  /\ semVal' = [semVal EXCEPT ![hProd[pub[t].h].sem_read] = @ + 1]
  /\ pub' = [pub EXCEPT ![t] = [IdlePub EXCEPT !.pc = PubNextPc("post_read"), !.ret = 0]]
  /\ hist' = [hist EXCEPT !.reg[PubRegion(t)].posts = @ + 1,
                           !.posted[hProd[pub[t].h].sem_read] = @ + 1]
  /\ UNCHANGED <<shmNames, semWNames, semRNames, region, nextRegion, nextSem,
                 proc, hProd, hCons, ppc, con>>

\* A step of a publish call on its drop path.
PubDrop(t) ==
  \/ PubDropLoad(t)
  \/ PubDropStore(t)

\* A step of a publish call that holds the gate (after the metadata).
PubGated(t) ==
  \/ PubFillData(t)
  \/ PubLoadWriteIdx(t)
  \/ PubStoreWriteIdx(t)
  \/ PubLoadFrameCount(t)
  \/ PubStoreFrameCount(t)
  \/ PubPostWrite(t)
  \/ PubPostRead(t)

(***************************************************************************)
(* video_shm_producer_destroy                                              *)
(***************************************************************************)
\* A pointer field that is not NULL and refers to no mapping of process pr:
\* MAP_FAILED, or a region the process has unmapped.
Dangling(pr, shm) ==
  shm # NULL /\ (shm \in RegionIds => proc[pr].maps[shm] = 0)

\* Lines 166-179: the log line reads frame_count and dropped_frames through
\* producer->shm when it is not NULL; then close and unlink the semaphores
\* the handle names.
PDestroySems(p) ==
  /\ ppc[p].pc = "idle"
  /\ NoPublishOn(p)
  /\ ~Dangling(PidP(p), hProd[p].shm)
  /\ LET h == hProd[p]
     IN /\ proc' = [proc EXCEPT ![PidP(p)].sems =
                      SemClose(SemClose(@, IF h.sem_read # SEM_FAILED THEN h.sem_read ELSE NoObj),
                               IF h.sem_write # SEM_FAILED THEN h.sem_write ELSE NoObj)]
        /\ semRNames' = IF h.sem_read # SEM_FAILED
                          THEN Unlink(semRNames, h.sem_read_name) ELSE semRNames
        /\ semWNames' = IF h.sem_write # SEM_FAILED
                          THEN Unlink(semWNames, h.sem_write_name) ELSE semWNames
  /\ PSet(p, "d_shm", 0)
  /\ UNCHANGED <<shmNames, region, semVal, nextRegion, nextSem,
                 hProd, hCons, pub, con, hist>>

\* Lines 181-190: munmap, close and shm_unlink, then clear the handle.
PDestroyShm(p) ==
  /\ ppc[p].pc = "d_shm"
  /\ LET h == hProd[p]
     IN /\ proc' = [proc EXCEPT
              ![PidP(p)].maps = IF h.shm # MAP_FAILED THEN Unmap(@, h.shm) ELSE @,
              ![PidP(p)].fd = IF h.shm_fd >= 0 THEN CloseFd(@, h.shm_fd) ELSE @]
        /\ shmNames' = IF h.shm_fd >= 0 THEN Unlink(shmNames, h.shm_name) ELSE shmNames
  /\ hProd' = [hProd EXCEPT ![p] = ZeroProducer]
  /\ PSet(p, "idle", 0)
  /\ UNCHANGED <<semWNames, semRNames, region, semVal, nextRegion, nextSem,
                 hCons, pub, con, hist>>

(***************************************************************************)
(* video_shm_consumer_init_channel                                         *)
(***************************************************************************)
CSet(c, rec) == con' = [con EXCEPT ![c] = rec]

CRet(c, op, v) == CSet(c, [IdleCon EXCEPT !.op = op, !.ret = v])

\* The handle is one a caller may use: zeroed, or attached with its region
\* mapped and both semaphores open.
ConsumerCallable(c) ==
  \/ hCons[c].shm = NULL
  \/ /\ hCons[c].shm \in RegionIds
     /\ proc[PidC(c)].maps[hCons[c].shm] > 0
     /\ hCons[c].sem_write \in SemIds
     /\ hCons[c].sem_read \in SemIds

\* A handle with the names of channel 0 whatever the channel asked for.
NamedConsumerOneName(ch) ==
  [ZeroConsumer EXCEPT !.channel_id = ch, !.shm_name = 0,
                       !.sem_write_name = 0, !.sem_read_name = 0]

\* Lines 201-210: the handle cleared and named "<base>_ch<channel_id>".
NamedConsumer(ch) ==
  [ZeroConsumer EXCEPT !.channel_id = ch, !.shm_name = ch,
                       !.sem_write_name = ch, !.sem_read_name = ch]

\* Lines 201-218: shm_open(O_RDWR) finds no object (or no descriptor is free).
CInitOpenFail(c, ch) ==
  /\ con[c].pc = "idle"
  /\ shmNames[ch] = NoObj \/ ~HasFreeFd(PidC(c))
  /\ hCons' = [hCons EXCEPT ![c] = [NamedConsumer(ch) EXCEPT !.shm_fd = -1]]
  /\ CRet(c, "init", -1)
  /\ UNCHANGED <<kernel, proc, hProd, ppc, pub, hist>>

\* Lines 201-223: shm_open and mmap succeed.
CInitOpen(c, ch) ==
  /\ con[c].pc = "idle"
  /\ shmNames[ch] # NoObj /\ HasFreeFd(PidC(c))
  /\ LET r == shmNames[ch]
         f == LowestFreeFd(PidC(c))
     IN /\ hCons' = [hCons EXCEPT ![c] = [NamedConsumer(ch) EXCEPT !.shm_fd = f, !.shm = r]]
        /\ proc' = [proc EXCEPT ![PidC(c)].fd[f] = r, ![PidC(c)].maps[r] = @ + 1]
  /\ CSet(c, [IdleCon EXCEPT !.op = "init", !.pc = "ci_magic"])
  /\ hist' = [hist EXCEPT !.opens = @ + 1, !.entry[PidC(c)] = proc[PidC(c)]]
  /\ UNCHANGED <<kernel, hProd, ppc, pub>>

\* Lines 224-228: mmap failed.
CInitMmapFail(c, ch) ==
  /\ con[c].pc = "idle"
  /\ shmNames[ch] # NoObj /\ HasFreeFd(PidC(c))
  /\ hCons' = [hCons EXCEPT ![c] =
        [NamedConsumer(ch) EXCEPT !.shm_fd = LowestFreeFd(PidC(c)), !.shm = MAP_FAILED]]
  /\ CRet(c, "init", -1)
  /\ UNCHANGED <<kernel, proc, hProd, ppc, pub, hist>>

\* A failing init that leaves the write-gate handle it opened open.
CInitReleaseKeepsSem(c, closeSemW) ==
  proc' = [proc EXCEPT
     ![PidC(c)].maps = Unmap(@, hCons[c].shm),
     ![PidC(c)].fd = CloseFd(@, hCons[c].shm_fd)]

\* munmap(consumer->shm) and close(consumer->shm_fd) of a failing init.
CInitRelease(c, closeSemW) ==
  proc' = [proc EXCEPT
     ![PidC(c)].sems = IF closeSemW THEN SemClose(@, hCons[c].sem_write) ELSE @,
     ![PidC(c)].maps = Unmap(@, hCons[c].shm),
     ![PidC(c)].fd = CloseFd(@, hCons[c].shm_fd)]

\* Lines 231-237: the magic check.
CInitMagic(c) ==
  /\ con[c].pc = "ci_magic"
  /\ IF region[hCons[c].shm].magic # VIDEO_SHM_MAGIC
       THEN CInitRelease(c, FALSE) /\ CRet(c, "init", -1)
       ELSE UNCHANGED proc /\ CSet(c, [con[c] EXCEPT !.pc = "ci_version"])
  /\ UNCHANGED <<kernel, hProd, hCons, ppc, pub, hist>>

\* An init without the version check of lines 239-245.
CInitVersionUnchecked(c) ==
  /\ con[c].pc = "ci_version"
  /\ CSet(c, [con[c] EXCEPT !.pc = "ci_sem_w"])
  /\ UNCHANGED <<kernel, proc, hProd, hCons, ppc, pub, hist>>

\* Lines 239-245: the version check.
CInitVersion(c) ==
  /\ con[c].pc = "ci_version"
  /\ IF region[hCons[c].shm].version # VIDEO_SHM_VERSION
       THEN CInitRelease(c, FALSE) /\ CRet(c, "init", -1)
       ELSE UNCHANGED proc /\ CSet(c, [con[c] EXCEPT !.pc = "ci_sem_w"])
  /\ UNCHANGED <<kernel, hProd, hCons, ppc, pub, hist>>

\* Lines 248-254: sem_open(sem_write_name, 0).
CInitSemW(c) ==
  /\ con[c].pc = "ci_sem_w"
  /\ LET s == semWNames[hCons[c].sem_write_name]
     IN IF s = NoObj
          THEN CInitRelease(c, FALSE) /\ CRet(c, "init", -1) /\ UNCHANGED hCons
          ELSE /\ hCons' = [hCons EXCEPT ![c].sem_write = s]
               /\ proc' = [proc EXCEPT ![PidC(c)].sems[s] = @ + 1]
               /\ CSet(c, [con[c] EXCEPT !.pc = "ci_sem_r"])
  /\ UNCHANGED <<kernel, hProd, ppc, pub, hist>>

\* Lines 256-263: sem_open(sem_read_name, 0).
CInitSemR(c) ==
  /\ con[c].pc = "ci_sem_r"
  /\ LET s == semRNames[hCons[c].sem_read_name]
     IN IF s = NoObj
          THEN CInitRelease(c, TRUE) /\ CRet(c, "init", -1) /\ UNCHANGED hCons
          ELSE /\ hCons' = [hCons EXCEPT ![c].sem_read = s]
               /\ proc' = [proc EXCEPT ![PidC(c)].sems[s] = @ + 1]
               /\ CSet(c, [con[c] EXCEPT !.pc = "ci_attach"])
  /\ UNCHANGED <<kernel, hProd, ppc, pub, hist>>

\* A consumer that starts from count 0 whatever was published.
StartCountZero(r) == 0

\* Line 266: the count the consumer starts from.
StartCount(r) == region[r].frame_count

\* getpid()
Getpid(c) == 100 + PidC(c)

\* Lines 266-267: last_sequence = frame_count; reader_id = getpid().
CInitAttach(c) ==
  /\ con[c].pc = "ci_attach"
  /\ hCons' = [hCons EXCEPT ![c].last_sequence = StartCount(hCons[c].shm),
                            ![c].reader_id = Getpid(c)]
  /\ CSet(c, [con[c] EXCEPT !.pc = "ci_count"])
  /\ hist' = [hist EXCEPT !.att[c] = hist.reg[hCons[c].shm].fc,
                           !.seen[c] = hist.reg[hCons[c].shm].fc,
                           !.got[c] = NoFrame]
  /\ UNCHANGED <<kernel, proc, hProd, ppc, pub>>

\* A counter that takes increments and loses decrements.
FetchAndAddIncOnly(v, d) == IF d > 0 THEN U32(v + d) ELSE v

\* __sync_fetch_and_add / __sync_fetch_and_sub on a counter of the region.
FetchAndAdd(v, d) == U32(v + d)

\* Line 269: __sync_fetch_and_add(&active_readers, 1); line 274: return 0.
CInitCount(c) ==
  /\ con[c].pc = "ci_count"
  /\ region' = [region EXCEPT ![hCons[c].shm].active_readers = FetchAndAdd(@, 1)]
  /\ CRet(c, "init", 0)
  /\ HistReg(hCons[c].shm, "inits", hist.reg[hCons[c].shm].inits + 1)
  /\ UNCHANGED <<shmNames, semWNames, semRNames, semVal, nextRegion, nextSem,
                 proc, hProd, hCons, ppc, pub>>

CInitStep(c) ==
  \/ CInitMagic(c)
  \/ CInitVersion(c)
  \/ CInitSemW(c)
  \/ CInitSemR(c)
  \/ CInitAttach(c)
  \/ CInitCount(c)

(***************************************************************************)
(* video_shm_consumer_destroy                                              *)
(***************************************************************************)
\* Line 383: the handle refers to a region.
DestroyCounts(h) == h.shm # NULL

\* A destroy without the memset of line 405: the handle keeps its fields.
CDestroyKeepsHandle(c) ==
  /\ con[c].pc = "idle"
  /\ ConsumerCallable(c)
  /\ LET h == hCons[c]
     IN /\ region' = IF DestroyCounts(h)
                       THEN [region EXCEPT ![h.shm].active_readers = FetchAndAdd(@, -1)]
                       ELSE region
        /\ proc' = [proc EXCEPT
              ![PidC(c)].sems =
                 SemClose(SemClose(@, IF h.sem_read # SEM_FAILED THEN h.sem_read ELSE NoObj),
                          IF h.sem_write # SEM_FAILED THEN h.sem_write ELSE NoObj),
              ![PidC(c)].maps = IF h.shm # MAP_FAILED THEN Unmap(@, h.shm) ELSE @,
              ![PidC(c)].fd = IF h.shm_fd >= 0 THEN CloseFd(@, h.shm_fd) ELSE @]
        /\ hist' = IF DestroyCounts(h)
                     THEN [hist EXCEPT !.reg[h.shm].destroys = @ + 1]
                     ELSE hist
  /\ CRet(c, "destroy", 0)
  /\ UNCHANGED <<shmNames, semWNames, semRNames, semVal, nextRegion, nextSem,
                 hProd, hCons, ppc, pub>>

\* Lines 383-405.  The decrement is the one access to shared memory; what
\* follows acts on the caller's own process.
CDestroy(c) ==
  /\ con[c].pc = "idle"
  /\ ConsumerCallable(c)
  /\ LET h == hCons[c]
     IN /\ region' = IF DestroyCounts(h)
                       THEN [region EXCEPT ![h.shm].active_readers = FetchAndAdd(@, -1)]
                       ELSE region
        /\ proc' = [proc EXCEPT
              ![PidC(c)].sems =
                 SemClose(SemClose(@, IF h.sem_read # SEM_FAILED THEN h.sem_read ELSE NoObj),
                          IF h.sem_write # SEM_FAILED THEN h.sem_write ELSE NoObj),
              ![PidC(c)].maps = IF h.shm # MAP_FAILED THEN Unmap(@, h.shm) ELSE @,
              ![PidC(c)].fd = IF h.shm_fd >= 0 THEN CloseFd(@, h.shm_fd) ELSE @]
        /\ hist' = IF DestroyCounts(h)
                     THEN [hist EXCEPT !.reg[h.shm].destroys = @ + 1]
                     ELSE hist
  /\ hCons' = [hCons EXCEPT ![c] = ZeroConsumer]
  /\ CRet(c, "destroy", 0)
  /\ UNCHANGED <<shmNames, semWNames, semRNames, semVal, nextRegion, nextSem,
                 hProd, ppc, pub>>

(***************************************************************************)
(* video_shm_consumer_read                                                 *)
(***************************************************************************)
\* Line 285: !consumer || !consumer->shm || !data || !meta
ReadArgsInvalid(c, dnull, mnull) == hCons[c].shm = NULL \/ dnull \/ mnull

\* Line 292: the sampled count shows no new frame.
NoNewFrame(cur, last) == cur = last

\* The slot the producer writes next, not the one it wrote last.
LatestSlotCurrent(widx) == U32(widx) % VIDEO_SHM_RING_SIZE

\* A latest-slot index computed on the integers, without the unsigned wrap
\* of write_idx - 1.
LatestSlotSigned(widx) == (widx - 1) % VIDEO_SHM_RING_SIZE

\* Line 297: (write_idx - 1) % VIDEO_SHM_RING_SIZE in uint32_t arithmetic.
LatestSlot(widx) == U32(widx - 1) % VIDEO_SHM_RING_SIZE

\* The call starts at "idle" (a poll) or at "r_sample" (inside a wait).
AtReadEntry(c) == con[c].pc = "idle" \/ con[c].pc = "r_sample"

EntryOp(c) == IF con[c].pc = "idle" THEN "read" ELSE con[c].op

\* Lines 285-288: invalid arguments, return -1.  Only a poll gets here: the
\* read inside a wait has the arguments that passed the check of line 318.
CReadReject(c, dnull, mnull) ==
  /\ con[c].pc = "idle"
  /\ ConsumerCallable(c)
  /\ ReadArgsInvalid(c, dnull, mnull)
  /\ CRet(c, "read", -1)
  /\ UNCHANGED <<kernel, proc, hProd, hCons, ppc, pub, hist>>

\* Lines 291-294: sample frame_count; return 0 when it equals last_sequence.
CReadSample(c) ==
  /\ AtReadEntry(c)
  /\ ConsumerCallable(c)
  /\ ~ReadArgsInvalid(c, FALSE, FALSE)
  /\ LET r == hCons[c].shm
         cur == region[r].frame_count
     IN IF NoNewFrame(cur, hCons[c].last_sequence)
          THEN CRet(c, EntryOp(c), 0)
          ELSE CSet(c, [IdleCon EXCEPT !.op = EntryOp(c), !.pc = "r_idx", !.cur = cur,
                                       !.acq0 = hist.reg[r].acquired,
                                       !.fc0 = hist.reg[r].fc,
                                       !.seen0 = hCons[c].last_sequence])
  /\ UNCHANGED <<kernel, proc, hProd, hCons, ppc, pub, hist>>

\* Line 297: load write_idx and compute the slot to read.
CReadIdx(c) ==
  /\ con[c].pc = "r_idx"
  /\ CSet(c, [con[c] EXCEPT !.idx = LatestSlot(region[hCons[c].shm].write_idx),
                            !.pc = "r_meta"])
  /\ UNCHANGED <<kernel, proc, hProd, hCons, ppc, pub, hist>>

\* Line 301: memcpy(meta, &slot->meta, sizeof(video_frame_meta_t)).
CReadMeta(c) ==
  /\ con[c].pc = "r_meta"
  /\ LET slot == region[hCons[c].shm].frames[con[c].idx]
     IN CSet(c, [con[c] EXCEPT !.meta = slot.meta, !.wmeta = slot.wmeta,
                               !.wdata0 = slot.wdata, !.pc = "r_data"])
  /\ UNCHANGED <<kernel, proc, hProd, hCons, ppc, pub, hist>>

\* last_sequence taken from frame_count as it is when the copy ends.
NextLastSequenceCurrent(sampled, current) == current

\* Line 309: consumer->last_sequence = current_count, the sampled value.
NextLastSequence(sampled, current) == sampled

\* A read that records the slot it consumed in the region's read_idx.
CReadDataMarksRead(c) ==
  /\ con[c].pc = "r_data"
  /\ LET slot == region[hCons[c].shm].frames[con[c].idx]
     IN CSet(c, [con[c] EXCEPT !.data = Memcpy(@, slot.data, con[c].meta.size),
                               !.wmeta1 = slot.wmeta, !.wdata = slot.wdata,
                               !.acq1 = hist.reg[hCons[c].shm].acquired,
                               !.pc = "idle", !.ret = con[c].meta.size])
  /\ hCons' = [hCons EXCEPT ![c].last_sequence = con[c].cur]
  /\ region' = [region EXCEPT ![hCons[c].shm].read_idx = con[c].idx + 1]
  /\ hist' = [hist EXCEPT !.seen[c] = con[c].fc0,
                           !.got[c] = [frame |-> con[c].wmeta,
                                       sequence |-> con[c].meta.sequence]]
  /\ UNCHANGED <<shmNames, semWNames, semRNames, semVal, nextRegion, nextSem,
                 proc, hProd, ppc, pub>>

\* Lines 302-311: memcpy(data, slot->data, meta->size); last_sequence =
\* current_count; return meta->size.
CReadData(c) ==
  /\ con[c].pc = "r_data"
  /\ LET slot == region[hCons[c].shm].frames[con[c].idx]
     IN CSet(c, [con[c] EXCEPT !.data = Memcpy(@, slot.data, con[c].meta.size),
                               !.wmeta1 = slot.wmeta, !.wdata = slot.wdata,
                               !.acq1 = hist.reg[hCons[c].shm].acquired,
                               !.pc = "idle", !.ret = con[c].meta.size])
  /\ hCons' = [hCons EXCEPT ![c].last_sequence =
                  NextLastSequence(con[c].cur, region[hCons[c].shm].frame_count)]
  /\ hist' = [hist EXCEPT !.seen[c] = con[c].fc0,
                           !.got[c] = [frame |-> con[c].wmeta,
                                       sequence |-> con[c].meta.sequence]]
  /\ UNCHANGED <<kernel, proc, hProd, ppc, pub>>

CReadStep(c) ==
  \/ CReadIdx(c)
  \/ CReadMeta(c)
  \/ CReadData(c)

(***************************************************************************)
(* video_shm_consumer_wait                                                 *)
(***************************************************************************)
\* Lines 318-341: valid arguments; the thread enters sem_wait (timeout_ms =
\* 0) or sem_timedwait.
CWaitCall(c, timeout_ms) ==
  /\ con[c].pc = "idle"
  /\ ConsumerCallable(c)
  /\ ~ReadArgsInvalid(c, FALSE, FALSE)
  /\ CSet(c, [IdleCon EXCEPT !.op = "wait", !.pc = "w_sem", !.tmo = timeout_ms,
                             !.posts0 = hist.reg[hCons[c].shm].posts])
  /\ UNCHANGED <<kernel, proc, hProd, hCons, ppc, pub, hist>>

\* Lines 318-321: invalid arguments, return -1.
CWaitReject(c, dnull, mnull) ==
  /\ con[c].pc = "idle"
  /\ ConsumerCallable(c)
  /\ ReadArgsInvalid(c, dnull, mnull)
  /\ CRet(c, "wait", -1)
  /\ UNCHANGED <<kernel, proc, hProd, hCons, ppc, pub, hist>>

\* A wake that drains the read-signal instead of taking one token.
CWaitWakeDrain(c) ==
  /\ con[c].pc = "w_sem"
  /\ semVal[hCons[c].sem_read] > 0
  /\ semVal' = [semVal EXCEPT ![hCons[c].sem_read] = 0]
  /\ CSet(c, [con[c] EXCEPT !.pc = "r_sample"])
  /\ UNCHANGED <<shmNames, semWNames, semRNames, region, nextRegion, nextSem,
                 proc, hProd, hCons, ppc, pub, hist>>

\* sem_wait / sem_timedwait takes a token; line 351 calls the read.
CWaitWake(c) ==
  /\ con[c].pc = "w_sem"
  /\ semVal[hCons[c].sem_read] > 0
  /\ semVal' = [semVal EXCEPT ![hCons[c].sem_read] = @ - 1]
  /\ CSet(c, [con[c] EXCEPT !.pc = "r_sample"])
  /\ hist' = [hist EXCEPT !.taken[hCons[c].sem_read] = @ + 1]
  /\ UNCHANGED <<shmNames, semWNames, semRNames, region, nextRegion, nextSem,
                 proc, hProd, hCons, ppc, pub>>

\* A wait that reports every failure of the semaphore wait as an error.
WaitFailResultError(tmo, errno) == -1

\* A timed wait that takes every failure of sem_timedwait for a timeout.
WaitFailResultSilent(tmo, errno) == IF tmo > 0 THEN 0 ELSE -1

\* Lines 326-329 and 341-347: what wait returns when the semaphore wait
\* failed with errno; only sem_timedwait maps ETIMEDOUT to 0.
WaitFailResult(tmo, errno) == IF tmo > 0 /\ errno = "ETIMEDOUT" THEN 0 ELSE -1

\* Lines 341-344: the deadline passed with the semaphore at 0; return 0.
CWaitTimeout(c) ==
  /\ con[c].pc = "w_sem"
  /\ con[c].tmo > 0
  /\ semVal[hCons[c].sem_read] = 0
  /\ CSet(c, [IdleCon EXCEPT !.op = "wait", !.errno = "ETIMEDOUT",
                             !.ret = WaitFailResult(con[c].tmo, "ETIMEDOUT")])
  /\ UNCHANGED <<kernel, proc, hProd, hCons, ppc, pub, hist>>

\* An interrupted wait that takes a token when one is there.
CWaitInterruptedTakes(c) ==
  /\ con[c].pc = "w_sem"
  /\ semVal' = [semVal EXCEPT ![hCons[c].sem_read] = IF @ > 0 THEN @ - 1 ELSE @]
  /\ CSet(c, [IdleCon EXCEPT !.op = "wait", !.errno = "EINTR",
                             !.ret = WaitFailResult(con[c].tmo, "EINTR")])
  /\ UNCHANGED <<shmNames, semWNames, semRNames, region, nextRegion, nextSem,
                 proc, hProd, hCons, ppc, pub, hist>>

\* Lines 326-329 and 345-346: the semaphore wait failed otherwise (EINTR).
CWaitInterrupted(c) ==
  /\ con[c].pc = "w_sem"
  /\ CSet(c, [IdleCon EXCEPT !.op = "wait", !.errno = "EINTR",
                             !.ret = WaitFailResult(con[c].tmo, "EINTR")])
  /\ UNCHANGED <<kernel, proc, hProd, hCons, ppc, pub, hist>>

(***************************************************************************)
(* video_shm_consumer_stats                                                *)
(***************************************************************************)
\* Lines 358-361: no handle or no region, return -1.
CStatsReject(c) ==
  /\ con[c].pc = "idle"
  /\ hCons[c].shm = NULL
  /\ CRet(c, "stats", -1)
  /\ UNCHANGED <<kernel, proc, hProd, hCons, ppc, pub, hist>>

\* Lines 363-365: *total_frames = frame_count.
CStatsTotal(c) ==
  /\ con[c].pc = "idle"
  /\ ConsumerCallable(c)
  /\ hCons[c].shm # NULL
  /\ CSet(c, [IdleCon EXCEPT !.op = "stats", !.pc = "s_dropped",
                             !.total = region[hCons[c].shm].frame_count])
  /\ UNCHANGED <<kernel, proc, hProd, hCons, ppc, pub, hist>>

\* A stats that reports the frame count as the dropped count.
CStatsDroppedAsTotal(c) ==
  /\ con[c].pc = "s_dropped"
  /\ CSet(c, [con[c] EXCEPT !.pc = "s_missed",
                            !.dropped = region[hCons[c].shm].frame_count])
  /\ UNCHANGED <<kernel, proc, hProd, hCons, ppc, pub, hist>>

\* Lines 367-369: *dropped_frames = dropped_frames.
CStatsDropped(c) ==
  /\ con[c].pc = "s_dropped"
  /\ CSet(c, [con[c] EXCEPT !.pc = "s_missed",
                            !.dropped = region[hCons[c].shm].dropped_frames])
  /\ UNCHANGED <<kernel, proc, hProd, hCons, ppc, pub, hist>>

\* A missed count that takes every frame ever published as missed.
MissedSinceZero(current, last) == current

\* A missed count taken as the difference of the counters modulo 2^w.
MissedModular(current, last) == U32(current - last)

\* Lines 373-374: the missed count from a sampled frame_count.
Missed(current, last) == IF current > last THEN current - last ELSE 0

\* Lines 371-377: *missed_frames; return 0.
CStatsMissed(c) ==
  /\ con[c].pc = "s_missed"
  /\ CSet(c, [con[c] EXCEPT !.pc = "idle", !.ret = 0,
        !.missed = Missed(region[hCons[c].shm].frame_count, hCons[c].last_sequence)])
  /\ UNCHANGED <<kernel, proc, hProd, hCons, ppc, pub, hist>>

(***************************************************************************)
(* Inputs                                                                  *)
(***************************************************************************)
\* A payload of n bytes of value b, as the caller's buffer.
Payload(b, n) == [i \in 1..VIDEO_SHM_MAX_FRAME_SIZE |-> IF i <= n THEN b ELSE 0]

\* Caller metadata: the size and sequence fields carry values of the
\* caller's own; timestamp_ms is 0 (the producer fills it) or given.
MetaKey ==
  [timestamp_ms |-> 0, size |-> 1, sequence |-> 5, is_keyframe |-> 1,
   codec |-> 0, width |-> 4, height |-> 3, fps |-> 6]

MetaStamped ==
  [timestamp_ms |-> 7, size |-> 0, sequence |-> 2, is_keyframe |-> 0,
   codec |-> 1, width |-> 2, height |-> 1, fps |-> 5]

\* Values of the monotonic clock in milliseconds.
ClockValues == {9}

\* {handle, data is null, meta is null, size}: the argument combinations of
\* publish calls, valid and invalid.
AllWriteArgs ==
  {<<h, dn, mn, sz>> : h \in {NULL} \cup Producers, dn \in BOOLEAN, mn \in BOOLEAN,
                       sz \in {VIDEO_SHM_MAX_FRAME_SIZE, VIDEO_SHM_MAX_FRAME_SIZE + 1}}

\* The frame a call carries: payload byte and caller metadata by size.
FrameData(sz) == Payload(sz + 1, sz)
FrameMeta(sz) == IF sz = 1 THEN MetaStamped ELSE MetaKey

(***************************************************************************)
(* Specification SpecSeq: one thread initialises a producer, publishes     *)
(* with every argument combination, and the counters wrap.                 *)
(***************************************************************************)
MaxSeqCalls == 10

\* A channel has one producer: init is called while no region has been
\* created and no other init or destroy is under way.
OneProducer == nextRegion = 1 /\ \A q \in Producers : ppc[q].pc = "idle"

PublishCall(t, args) ==
  \/ PubReject(t, args[1], args[2], args[3], args[4])
  \/ PubAcquire(t, args[1], args[2], args[3], args[4], FrameData(args[4]), FrameMeta(args[4]))
  \/ PubBusy(t, args[1], args[2], args[3], args[4], FrameData(args[4]), FrameMeta(args[4]))

NextSeq ==
  \/ /\ OneProducer
     /\ \E p \in Producers, ch \in Channels : PInitBegin(p, ch)
  \/ \E p \in Producers : PInitStep(p)
  \/ /\ hist.calls < MaxSeqCalls
     /\ \E args \in AllWriteArgs : PublishCall(1, args)
  \/ /\ hist.calls < MaxSeqCalls
     /\ \E h \in Producers :
          \/ PubAcquire(2, h, FALSE, FALSE, VIDEO_SHM_MAX_FRAME_SIZE,
                        FrameData(VIDEO_SHM_MAX_FRAME_SIZE), FrameMeta(VIDEO_SHM_MAX_FRAME_SIZE))
          \/ PubBusy(2, h, FALSE, FALSE, VIDEO_SHM_MAX_FRAME_SIZE,
                     FrameData(VIDEO_SHM_MAX_FRAME_SIZE), FrameMeta(VIDEO_SHM_MAX_FRAME_SIZE))
  \/ \E t \in {1, 2}, now \in ClockValues : PubFillMeta(t, now)
  \/ \E t \in {1, 2} : PubGated(t)
  \/ \E t \in {1, 2} : PubDrop(t)

SpecSeq == Init /\ [][NextSeq]_vars

(***************************************************************************)
(* Specification SpecPub: NThreads threads publish concurrently on one     *)
(* producer handle.                                                        *)
(***************************************************************************)
NextPub ==
  \/ /\ OneProducer
     /\ \E p \in Producers, ch \in Channels : PInitBegin(p, ch)
  \/ \E p \in Producers : PInitStep(p)
  \/ /\ hist.calls < MaxCalls
     /\ \E t \in Threads, h \in Producers :
          \/ PubAcquire(t, h, FALSE, FALSE, 1, FrameData(1), FrameMeta(1))
          \/ PubBusy(t, h, FALSE, FALSE, 1, FrameData(1), FrameMeta(1))
  \/ \E t \in Threads, now \in ClockValues : PubFillMeta(t, now)
  \/ \E t \in Threads : PubGated(t)
  \/ \E t \in Threads : PubDrop(t)

SpecPub == Init /\ [][NextPub]_vars

(***************************************************************************)
(* Specification SpecPoll: one thread publishes on one producer handle     *)
(* while consumers attach and poll.                                        *)
(***************************************************************************)
MaxPollCalls == 4                    \* publish calls in SpecPoll

MaxOpens == 2                        \* consumer inits that open a region

\* Init is called on a handle that is not attached.
Detached(c) == hCons[c].shm = NULL \/ ~ConsumerCallable(c)

ConsumerInit(c, ch) ==
  \/ CInitOpenFail(c, ch)
  \/ CInitMmapFail(c, ch)
  \/ CInitOpen(c, ch)

NextPoll ==
  \/ /\ OneProducer
     /\ \E p \in Producers, ch \in Channels : PInitBegin(p, ch)
  \/ \E p \in Producers : PInitStep(p)
  \/ /\ hist.calls < MaxPollCalls
     /\ \E h \in Producers : PubAcquire(1, h, FALSE, FALSE, 1, FrameData(1), FrameMeta(1))
  \/ \E now \in ClockValues : PubFillMeta(1, now)
  \/ PubGated(1)
  \/ /\ hist.opens < MaxOpens
     /\ \E c \in Consumers, ch \in Channels : Detached(c) /\ ConsumerInit(c, ch)
  \/ \E c \in Consumers : CInitStep(c)
  \/ \E c \in Consumers : con[c].pc = "idle" /\ CReadSample(c)
  \/ \E c \in Consumers : CReadStep(c)

SpecPoll == Init /\ [][NextPoll]_vars

(***************************************************************************)
(* Specification SpecLife: the whole life of a channel.  A producer is     *)
(* initialised (or fails to be), two threads publish and drop, a consumer  *)
(* attaches, polls, waits, asks for statistics and detaches, and both      *)
(* kinds of handle are destroyed, zeroed handles included.                 *)
(***************************************************************************)
MaxLifeCalls == 2                    \* publish calls in SpecLife

LifeThreads == {1, 2}

\* Values of timeout_ms: 0 waits for ever.
Timeouts == {0, 1}

NextLife ==
  \/ /\ OneProducer
     /\ \E p \in Producers, ch \in Channels : PInitBegin(p, ch)
  \/ \E p \in Producers : PInitStep(p)
  \/ \E p \in Producers : PInitFail(p)
  \/ /\ hist.calls < MaxLifeCalls
     /\ \E t \in LifeThreads, h \in Producers :
          \/ PubAcquire(t, h, FALSE, FALSE, 1, FrameData(1), FrameMeta(1))
          \/ PubBusy(t, h, FALSE, FALSE, 1, FrameData(1), FrameMeta(1))
  \/ \E t \in LifeThreads, now \in ClockValues : PubFillMeta(t, now)
  \/ \E t \in LifeThreads : PubGated(t)
  \/ \E t \in LifeThreads : PubDrop(t)
  \/ \E p \in Producers : PDestroySems(p)
  \/ \E p \in Producers : PDestroyShm(p)
  \/ /\ hist.opens < MaxOpens
     /\ \E ch \in Channels : Detached(1) /\ ConsumerInit(1, ch)
  \/ CInitStep(1)
  \/ CDestroy(1)
  \/ \E dn \in BOOLEAN, mn \in BOOLEAN : CReadReject(1, dn, mn)
  \/ CReadSample(1)
  \/ CReadStep(1)
  \/ \E tmo \in Timeouts : CWaitCall(1, tmo)
  \/ \E dn \in BOOLEAN, mn \in BOOLEAN : CWaitReject(1, dn, mn)
  \/ CWaitWake(1)
  \/ CWaitTimeout(1)
  \/ CWaitInterrupted(1)
  \/ CStatsReject(1)
  \/ CStatsTotal(1)
  \/ CStatsDropped(1)
  \/ CStatsMissed(1)

SpecLife == Init /\ [][NextLife]_vars

(***************************************************************************)
(* Specification SpecCount: consumers in different processes attach and    *)
(* detach concurrently while a thread publishes.                           *)
(***************************************************************************)
MaxCountCalls == 1                   \* publish calls in SpecCount

MaxCountOpens == 3                   \* consumer inits in SpecCount that open a region

NextCount ==
  \/ /\ OneProducer
     /\ \E p \in Producers, ch \in Channels : PInitBegin(p, ch)
  \/ \E p \in Producers : PInitStep(p)
  \/ /\ hist.calls < MaxCountCalls
     /\ \E h \in Producers : PubAcquire(1, h, FALSE, FALSE, 1, FrameData(1), FrameMeta(1))
  \/ \E now \in ClockValues : PubFillMeta(1, now)
  \/ PubGated(1)
  \/ /\ hist.opens < MaxCountOpens
     /\ \E c \in Consumers, ch \in Channels : Detached(c) /\ ConsumerInit(c, ch)
  \/ \E c \in Consumers : CInitStep(c)
  \/ \E c \in Consumers : CDestroy(c)

SpecCount == Init /\ [][NextCount]_vars

(***************************************************************************)
(* Specification SpecSize: a thread publishes frames of size 0 and 1 and   *)
(* one consumer attaches, polls and waits.                                 *)
(***************************************************************************)
MaxSizeCalls == 2                    \* publish calls in SpecSize

\* Frame sizes published in SpecSize; 0 passes the check of line 125.
FrameSizes == {0, 1}

NextSize ==
  \/ /\ OneProducer
     /\ \E p \in Producers, ch \in Channels : PInitBegin(p, ch)
  \/ \E p \in Producers : PInitStep(p)
  \/ /\ hist.calls < MaxSizeCalls
     /\ \E h \in Producers, sz \in FrameSizes :
          PubAcquire(1, h, FALSE, FALSE, sz, FrameData(sz), FrameMeta(sz))
  \/ \E now \in ClockValues : PubFillMeta(1, now)
  \/ PubGated(1)
  \/ /\ hist.opens < MaxOpens
     /\ \E ch \in Channels : Detached(1) /\ ConsumerInit(1, ch)
  \/ CInitStep(1)
  \/ CReadSample(1)
  \/ CReadStep(1)
  \/ \E tmo \in Timeouts : CWaitCall(1, tmo)
  \/ CWaitWake(1)
  \/ CWaitTimeout(1)

SpecSize == Init /\ [][NextSize]_vars

(***************************************************************************)
(* Specification SpecOverrun: a thread publishes more frames than the ring *)
(* holds while one consumer attaches, polls and asks for statistics.       *)
(***************************************************************************)
MaxOverrunCalls == UINT32_MOD        \* publish calls: one turn of frame_count

NextOverrun ==
  \/ /\ OneProducer
     /\ \E p \in Producers, ch \in Channels : PInitBegin(p, ch)
  \/ \E p \in Producers : PInitStep(p)
  \/ /\ hist.calls < MaxOverrunCalls
     /\ \E h \in Producers : PubAcquire(1, h, FALSE, FALSE, 1, FrameData(1), FrameMeta(1))
  \/ \E now \in ClockValues : PubFillMeta(1, now)
  \/ PubGated(1)
  \/ /\ hist.opens < MaxOpens
     /\ \E ch \in Channels : Detached(1) /\ ConsumerInit(1, ch)
  \/ CInitStep(1)
  \/ con[1].pc = "idle" /\ CReadSample(1)
  \/ CReadStep(1)
  \/ CStatsTotal(1)
  \/ CStatsDropped(1)
  \/ CStatsMissed(1)

SpecOverrun == Init /\ [][NextOverrun]_vars

(***************************************************************************)
(* Specification SpecWait: consumers in different processes block in wait  *)
(* with no timeout while a thread publishes.  The scheduler runs every     *)
(* process: a step of a call under way that stays possible is taken.  No   *)
(* call has to be made.                                                    *)
(***************************************************************************)
MaxWaitCalls == 2                    \* publish calls in SpecWait

NextWait ==
  \/ /\ OneProducer
     /\ \E p \in Producers, ch \in Channels : PInitBegin(p, ch)
  \/ \E p \in Producers : PInitStep(p)
  \/ /\ hist.calls < MaxWaitCalls
     /\ \E h \in Producers : PubAcquire(1, h, FALSE, FALSE, 1, FrameData(1), FrameMeta(1))
  \/ \E now \in ClockValues : PubFillMeta(1, now)
  \/ PubGated(1)
  \/ /\ hist.opens < MaxOpens
     /\ \E c \in Consumers, ch \in Channels : Detached(c) /\ ConsumerInit(c, ch)
  \/ \E c \in Consumers : CInitStep(c)
  \/ \E c \in Consumers : CWaitCall(c, 0)
  \/ \E c \in Consumers : CWaitWake(c)
  \/ \E c \in Consumers : con[c].pc = "r_sample" /\ CReadSample(c)
  \/ \E c \in Consumers : CReadStep(c)

SpecWait ==
  /\ Init /\ [][NextWait]_vars
  /\ \A p \in Producers : WF_vars(PInitStep(p))
  /\ WF_vars(\E now \in ClockValues : PubFillMeta(1, now))
  /\ WF_vars(PubGated(1))
  /\ \A c \in Consumers :
       /\ WF_vars(CInitStep(c))
       /\ WF_vars(CWaitWake(c))
       /\ WF_vars(con[c].pc = "r_sample" /\ CReadSample(c))
       /\ WF_vars(CReadStep(c))

(***************************************************************************)
(* Specification SpecStale: the producer process dies at any point, with   *)
(* or without the gate, leaving its named objects; a new producer process  *)
(* then initialises the same channel, and a consumer attaches to an        *)
(* initialised channel.  At most one producer process is alive at a time.  *)
(***************************************************************************)
MaxStaleCalls == 2                   \* publish calls in SpecStale

\* The process of producer p ends without destroy: the kernel closes its
\* descriptors, mappings and semaphore handles; the names, the region and
\* the semaphore values stay as they are.
PCrash(p) ==
  /\ hProd[p].shm_name # NoName
  /\ nextRegion <= MaxRegions
  /\ proc' = [proc EXCEPT ![PidP(p)] = FreshProc]
  /\ hProd' = [hProd EXCEPT ![p] = ZeroProducer]
  /\ ppc' = [ppc EXCEPT ![p] = [pc |-> "idle", ret |-> 0]]
  /\ pub' = [t \in Threads |-> IF pub[t].h = p THEN IdlePub ELSE pub[t]]
  /\ UNCHANGED <<kernel, hCons, con, hist>>

NextStale ==
  \/ /\ \A q \in Producers : ppc[q].pc = "idle" /\ hProd[q].shm = NULL
     /\ \E p \in Producers, ch \in Channels : PInitBegin(p, ch)
  \/ \E p \in Producers : PInitStep(p)
  \/ \E p \in Producers : PCrash(p)
  \/ /\ hist.calls < MaxStaleCalls
     /\ \E h \in Producers : PubAcquire(1, h, FALSE, FALSE, 1, FrameData(1), FrameMeta(1))
  \/ \E now \in ClockValues : PubFillMeta(1, now)
  \/ PubGated(1)
  \/ /\ hist.opens < MaxOpens
     /\ \E p \in Producers :
          /\ ppc[p].pc = "idle" /\ ppc[p].ret = 0 /\ hProd[p].shm \in RegionIds
          /\ Detached(1) /\ ConsumerInit(1, hProd[p].channel_id)
  \/ CInitStep(1)

SpecStale == Init /\ [][NextStale]_vars

(***************************************************************************)
(* Specification SpecIso: two channels.  A producer process serves one     *)
(* channel; it may end, with or without destroy, and a producer process    *)
(* for either channel starts.  A consumer attaches to either channel,      *)
(* polls, waits and detaches.                                              *)
(***************************************************************************)
MaxIsoCalls == 2                     \* publish calls in SpecIso

NextIso ==
  \/ /\ \A q \in Producers : ppc[q].pc = "idle" /\ hProd[q].shm = NULL
     /\ \E p \in Producers, ch \in ChannelIds : PInitBegin(p, ch)
  \/ \E p \in Producers : PInitStep(p)
  \/ \E p \in Producers : PCrash(p)
  \/ \E p \in Producers : hProd[p].shm \in RegionIds /\ PDestroySems(p)
  \/ \E p \in Producers : PDestroyShm(p)
  \/ /\ hist.calls < MaxIsoCalls
     /\ \E h \in Producers : PubAcquire(1, h, FALSE, FALSE, 1, FrameData(1), FrameMeta(1))
  \/ \E now \in ClockValues : PubFillMeta(1, now)
  \/ PubGated(1)
  \/ /\ hist.opens < MaxOpens
     /\ \E ch \in ChannelIds : Detached(1) /\ ConsumerInit(1, ch)
  \/ CInitStep(1)
  \/ hCons[1].shm \in RegionIds /\ CDestroy(1)
  \/ con[1].pc = "idle" /\ hCons[1].shm \in RegionIds /\ CReadSample(1)
  \/ CReadStep(1)
  \/ hCons[1].shm \in RegionIds /\ CWaitCall(1, 1)
  \/ CWaitWake(1)
  \/ con[1].pc = "r_sample" /\ CReadSample(1)
  \/ CWaitTimeout(1)

SpecIso == Init /\ [][NextIso]_vars

(***************************************************************************)
(* Specification SpecRound: a thread publishes frames of every size with   *)
(* either caller metadata; the n-th call carries n in its payload bytes    *)
(* and in meta.width, and its size in meta.height.  A consumer attaches    *)
(* and polls.                                                              *)
(***************************************************************************)
MaxRoundCalls == 2                   \* publish calls in SpecRound

CallerMetas == {MetaKey, MetaStamped}

\* The caller metadata of the n-th call, made from m for a frame of sz bytes.
RoundMeta(m, n, sz) == [m EXCEPT !.width = n, !.height = sz]

NextRound ==
  \/ /\ OneProducer
     /\ \E p \in Producers, ch \in Channels : PInitBegin(p, ch)
  \/ \E p \in Producers : PInitStep(p)
  \/ /\ hist.calls < MaxRoundCalls
     /\ \E h \in Producers, sz \in 1..VIDEO_SHM_MAX_FRAME_SIZE, m \in CallerMetas :
          PubAcquire(1, h, FALSE, FALSE, sz, Payload(hist.calls + 1, sz),
                     RoundMeta(m, hist.calls + 1, sz))
  \/ \E now \in ClockValues : PubFillMeta(1, now)
  \/ PubGated(1)
  \/ /\ hist.opens < MaxOpens
     /\ \E ch \in Channels : Detached(1) /\ ConsumerInit(1, ch)
  \/ CInitStep(1)
  \/ con[1].pc = "idle" /\ CReadSample(1)
  \/ CReadStep(1)

SpecRound == Init /\ [][NextRound]_vars

(***************************************************************************)
(* Specification SpecShare: two consumers in different processes use the   *)
(* whole consumer interface on one region while a thread publishes.        *)
(***************************************************************************)
MaxShareCalls == 1                   \* publish calls in SpecShare

NextShare ==
  \/ /\ OneProducer
     /\ \E p \in Producers, ch \in Channels : PInitBegin(p, ch)
  \/ \E p \in Producers : PInitStep(p)
  \/ /\ hist.calls < MaxShareCalls
     /\ \E h \in Producers : PubAcquire(1, h, FALSE, FALSE, 1, FrameData(1), FrameMeta(1))
  \/ \E now \in ClockValues : PubFillMeta(1, now)
  \/ PubGated(1)
  \/ /\ hist.opens < MaxOpens
     /\ \E c \in Consumers, ch \in Channels : Detached(c) /\ ConsumerInit(c, ch)
  \/ \E c \in Consumers : CInitStep(c)
  \/ \E c \in Consumers : CDestroy(c)
  \/ \E c \in Consumers : CReadSample(c)
  \/ \E c \in Consumers : CReadStep(c)
  \/ \E c \in Consumers : CWaitCall(c, 1)
  \/ \E c \in Consumers : CWaitWake(c)
  \/ \E c \in Consumers : CWaitTimeout(c)
  \/ \E c \in Consumers : CStatsTotal(c)
  \/ \E c \in Consumers : CStatsDropped(c)
  \/ \E c \in Consumers : CStatsMissed(c)

SpecShare == Init /\ [][NextShare]_vars

(***************************************************************************)
(* Specification SpecTorn: a thread publishes once round the ring while a  *)
(* consumer polls; the store of the metadata is taken statement by         *)
(* statement (memcpy of line 142, then lines 143-148), so that a poll can  *)
(* read a slot the producer is writing.  The caller's meta.size is a value *)
(* of its own: the producer overwrites it at line 144.                     *)
(***************************************************************************)
MaxTornCalls == VIDEO_SHM_RING_SIZE + 1

\* Caller metadata whose size field is not the size argument of the call.
MetaCallerSize == [MetaKey EXCEPT !.size = VIDEO_SHM_MAX_FRAME_SIZE + 1]

NextTorn ==
  \/ /\ OneProducer
     /\ \E p \in Producers, ch \in Channels : PInitBegin(p, ch)
  \/ \E p \in Producers : PInitStep(p)
  \/ /\ hist.calls < MaxTornCalls
     /\ \E h \in Producers : PubAcquire(1, h, FALSE, FALSE, 1, FrameData(1), MetaCallerSize)
  \/ PubCopyMeta(1)
  \/ \E now \in ClockValues : PubStampMeta(1, now)
  \/ PubGated(1)
  \/ /\ hist.opens < MaxOpens
     /\ \E ch \in Channels : Detached(1) /\ ConsumerInit(1, ch)
  \/ CInitStep(1)
  \/ con[1].pc = "idle" /\ CReadSample(1)
  \/ CReadStep(1)

SpecTorn == Init /\ [][NextTorn]_vars

(***************************************************************************)
(* Properties of publish                                                   *)
(***************************************************************************)
\* Positions at which the gate is held and the slot has been filled.
AfterFill == {"widx_load", "widx_store", "fc_load", "fc_store", "post_write"}

\* The slot thread t writes holds the metadata and payload of t's call.
SlotComplete(t) ==
  LET slot == region[PubRegion(t)].frames[pub[t].idx]
  IN /\ slot.wmeta = pub[t].ord
     /\ slot.wdata = pub[t].ord
     /\ slot.meta.size = pub[t].size
     /\ \A i \in 1..pub[t].size : slot.data[i] = pub[t].data[i]

\* C1: in every publish that acquires the write-gate the slot is written,
\* then write_idx is advanced, then frame_count, then the gate is released,
\* then the read-signal is posted; frame_count and the read-signal never
\* count a frame whose slot is not completely written.
C1_PublishOrder ==
  /\ \A t \in Threads : pub[t].pc \in AfterFill => SlotComplete(t)
  /\ \A t \in Threads :
       pub[t].pc \in {"fill_meta", "fill_data"} =>
          hist.reg[PubRegion(t)].fc < pub[t].ord
  /\ \A r \in RegionIds :
       LET h == hist.reg[r]
       IN /\ h.acquired >= h.filled
          /\ h.filled >= h.widx
          /\ h.widx >= h.fc
          /\ h.fc >= h.released
          /\ h.released >= h.posts
          /\ region[r].write_idx = U32(h.widx)
          /\ region[r].frame_count = U32(h.fc)
  /\ \A p \in Producers :
       hProd[p].sem_read \in SemIds /\ hProd[p].shm \in RegionIds =>
          semVal[hProd[p].sem_read] = hist.reg[hProd[p].shm].posts

\* C1 witness: two publishes ran to their end while a third holds the gate.
C1_Witness ==
  /\ hist.reg[1].posts = 2
  /\ \E t \in Threads : pub[t].pc = "fc_store"

\* The shared state a publish call may touch, but for the drop counter.
PubFrame(r) ==
  <<region[r].write_idx, region[r].frame_count, region[r].frames,
    region[r].magic, region[r].version, region[r].read_idx,
    region[r].active_readers, semVal, hProd>>

\* C3: a publish with valid arguments issued while the write-gate is held
\* returns 0, increments dropped_frames by exactly 1 and leaves write_idx,
\* frame_count, every slot, the sequence counter, the write-gate and the
\* read-signal unchanged.
C3_DropEffect ==
  [][\A t \in Threads, r \in RegionIds :
       pub[t].pc = "drop_store" /\ pub'[t].pc = "idle" /\ r = PubRegion(t) =>
         /\ pub'[t].ret = 0
         /\ region'[r].dropped_frames = U32(region[r].dropped_frames + 1)
         /\ PubFrame(r)' = PubFrame(r)]_vars

\* No call is under way on any handle.
Quiescent ==
  /\ \A t \in Threads : pub[t].pc = "idle"
  /\ \A p \in Producers : ppc[p].pc = "idle"

\* C4: once all A calls with valid arguments have returned, P of them having
\* acquired the write-gate, frame_count = P and dropped_frames >= A - P.
C4_DropConservation ==
  Quiescent =>
    \A r \in RegionIds :
      /\ region[r].frame_count = U32(hist.reg[r].acquired)
      /\ region[r].dropped_frames >= hist.reg[r].busy

\* The arguments a thread's record holds are ones line 120 or 125 refuses.
BadArgs(u) ==
  IF u.h = NULL THEN TRUE
  ELSE hProd[u.h].shm = NULL \/ u.dnull \/ u.mnull \/ u.size > VIDEO_SHM_MAX_FRAME_SIZE

\* C5: a publish with size > MAX_FRAME_SIZE, or with a null handle, region,
\* data or metadata, returns -1 and changes nothing: region, semaphores,
\* names, handle and process tables stay as they are.
C5_RejectNoEffect ==
  [][\A t \in Threads :
       pub[t].pc = "idle" /\ pub'[t] # pub[t] /\ BadArgs(pub'[t]) =>
         /\ pub'[t].pc = "idle"
         /\ pub'[t].ret = -1
         /\ UNCHANGED <<kernel, proc, hProd, hist>>]_vars

\* C5 witness: an oversized publish was refused on an initialised handle
\* that has published before.
C5_Witness ==
  /\ pub[1].pc = "idle" /\ pub[1].ret = -1
  /\ pub[1].h = 1 /\ pub[1].size = VIDEO_SHM_MAX_FRAME_SIZE + 1
  /\ ~pub[1].dnull /\ ~pub[1].mnull
  /\ hProd[1].shm # NULL
  /\ hist.reg[1].posts >= 1

\* C9: the n-th publish that acquires the gate (n from 0) stores sequence
\* n mod 2^32 whatever the caller's metadata says, and the handle's counter
\* is the number of sequence numbers taken: drops and rejected calls take
\* none.
C9_Sequence ==
  /\ \A r \in RegionIds, s \in Slots :
       region[r].frames[s].wmeta > 0 =>
         region[r].frames[s].meta.sequence = U32(region[r].frames[s].wmeta - 1)
  /\ \A p \in Producers :
       hProd[p].shm \in RegionIds =>
         LET inMeta == {t \in Threads : pub[t].pc = "fill_meta" /\ pub[t].h = p}
         IN hProd[p].sequence =
              U32(hist.reg[hProd[p].shm].acquired - Cardinality(inMeta))

\* C9 witness: the sequence has wrapped, and a drop and a rejected call
\* came before the publish that stored sequence 0 again.
C9_Witness ==
  /\ \E s \in Slots : /\ region[1].frames[s].wmeta = UINT32_MOD + 1
                      /\ region[1].frames[s].meta.sequence = 0
  /\ hist.reg[1].dropped >= 1

(***************************************************************************)
(* Properties of the consumer side and of the life cycle                   *)
(***************************************************************************)
\* Consumer c's last call was a poll that copied a slot out.
PollCopied(c) == con[c].pc = "idle" /\ con[c].op = "read" /\ con[c].acq1 > 0

\* What c copied is one publish's metadata and payload, and the slot held
\* exactly that publish from the start of the copy to its end.
CleanCopy(c) ==
  /\ con[c].wmeta > 0
  /\ con[c].wdata0 = con[c].wmeta
  /\ con[c].wmeta1 = con[c].wmeta
  /\ con[c].wdata = con[c].wmeta

\* Gate acquisitions between c's sample of frame_count and the end of its copy.
PublishesMeanwhile(c) == con[c].acq1 - con[c].acq0

\* C2 as stated: a poll copies a completely written slot unless more than
\* RING_SIZE publishes happened between the sample and the end of the copy.
C2_TornOnlyIfLapped ==
  \A c \in Consumers :
    PollCopied(c) /\ ~CleanCopy(c) => PublishesMeanwhile(c) > VIDEO_SHM_RING_SIZE

\* C2 amended: with write_idx not yet wrapped, a poll copies a completely
\* written slot unless at least RING_SIZE - 1 publishes acquired the
\* write-gate between the sample and the end of the copy.
C2_TornOnlyIfNearlyLapped ==
  \A c \in Consumers :
    PollCopied(c) /\ ~CleanCopy(c) /\ con[c].acq1 < UINT32_MOD =>
       PublishesMeanwhile(c) >= VIDEO_SHM_RING_SIZE - 1

\* C2 witness: a poll copied a slot the producer was overwriting, after
\* exactly RING_SIZE - 1 publishes since the sample.
C2_Witness ==
  \E c \in Consumers :
    /\ PollCopied(c) /\ ~CleanCopy(c)
    /\ PublishesMeanwhile(c) = VIDEO_SHM_RING_SIZE - 1

\* C6: on every region active_readers is the number of consumer inits that
\* returned 0 less the number of destroys of initialised handles.
C6_ReaderCount ==
  \A r \in RegionIds :
    region[r].active_readers = U32(hist.reg[r].inits - hist.reg[r].destroys)

\* C6 witness: two inits and one destroy are done, a publish has completed
\* and another init is about to count itself.
C6_Witness ==
  /\ hist.reg[1].inits = 2 /\ hist.reg[1].destroys = 1
  /\ hist.reg[1].fc >= 1
  /\ \E c \in Consumers : con[c].pc = "ci_count"

\* The step is consumer c's destroy: nobody else moved and c's call record
\* is that of a destroy.
IsConsumerDestroy(c) ==
  /\ con[c].pc = "idle" /\ con'[c].pc = "idle" /\ con'[c].op = "destroy"
  /\ pub' = pub /\ ppc' = ppc
  /\ \A d \in Consumers : d # c => con'[d] = con[d]

\* The step is one of the two steps of producer p's destroy.
IsProducerDestroy(p) ==
  \/ ppc[p].pc = "idle" /\ ppc'[p].pc = "d_shm"
  \/ ppc[p].pc = "d_shm" /\ ppc'[p].pc = "idle"

\* C7: producer destroy and consumer destroy on an all-zero handle act on
\* no OS resource: no descriptor closed, no mapping unmapped, no semaphore
\* closed, no name unlinked, active_readers unchanged.
C7_ZeroDestroyNoEffect ==
  [][/\ \A c \in Consumers :
          hCons[c] = ZeroConsumer /\ IsConsumerDestroy(c) =>
             UNCHANGED <<kernel, proc>>
     /\ \A p \in Producers :
          hProd[p] = ZeroProducer /\ IsProducerDestroy(p) =>
             UNCHANGED <<kernel, proc>>]_vars

\* C8: consumer init takes the frame_count current at attach as its
\* last_sequence; a poll finds a new frame only when a publish completed
\* after the attach, and what a poll copies was published after the attach.
C8_LiveEdge ==
  \A c \in Consumers :
    /\ con[c].pc = "ci_count" => hCons[c].last_sequence = U32(hist.att[c])
    /\ con[c].pc \in {"r_idx", "r_meta", "r_data"} =>
          hist.reg[hCons[c].shm].fc > hist.att[c]
    /\ con[c].op = "read" /\ con[c].wmeta > 0 => con[c].wmeta > hist.att[c]
    /\ con[c].op = "read" /\ con[c].wdata > 0 => con[c].wdata > hist.att[c]

\* C8 witness: a consumer attached after two frames were published, polled
\* with no publish in between, and got 0.
C8_Witness ==
  \E c \in Consumers :
    /\ con[c].pc = "idle" /\ con[c].op = "read" /\ con[c].ret = 0
    /\ hCons[c].shm = 1
    /\ hist.att[c] >= 2
    /\ hist.reg[1].fc = hist.att[c]

\* Producer init returned 0 on handle p and destroy has not been called.
ProducerInitialised(p) ==
  ppc[p].pc = "idle" /\ ppc[p].ret = 0 /\ hProd[p].shm \in RegionIds

\* C10: from the return of a successful producer init until producer
\* destroy, the region's magic and version are 0x56494445 and 1.
C10_HeaderConstant ==
  \A p \in Producers :
    ProducerInitialised(p) =>
      /\ region[hProd[p].shm].magic = VIDEO_SHM_MAGIC
      /\ region[hProd[p].shm].version = VIDEO_SHM_VERSION

\* C10 witness: on an initialised producer a frame was published, another
\* dropped, and a consumer attached, got statistics or frames, and detached.
C10_Witness ==
  /\ ProducerInitialised(1)
  /\ hist.reg[1].posts >= 1 /\ hist.reg[1].dropped >= 1
  /\ hist.reg[1].destroys >= 1
  /\ con[1].op = "destroy"

(***************************************************************************)
(* Properties of poll, wait and stats                                      *)
(***************************************************************************)
\* Positions inside the copy of video_shm_consumer_read.
Reading == {"r_idx", "r_meta", "r_data"}

\* C11: poll never blocks; it samples frame_count once; when the sample
\* equals last_sequence it returns 0 and changes nothing; otherwise it
\* copies the metadata and meta.size payload bytes of the slot at
\* (write_idx - 1) mod RING_SIZE, sets last_sequence to the sampled value
\* and returns that slot's size.
C11_Poll ==
  [][\A c \in Consumers :
       /\ con[c].pc \in Reading =>
            /\ ENABLED CReadStep(c)
            /\ con[c].cur = U32(con[c].fc0)
       /\ con[c].pc = "idle" /\ con'[c].op = "read" /\ con'[c] # con[c] =>
            /\ UNCHANGED <<kernel, proc, hCons>>
            /\ IF region[hCons[c].shm].frame_count = hCons[c].last_sequence
                  THEN con'[c] = [IdleCon EXCEPT !.op = "read", !.ret = 0]
                  ELSE /\ con'[c].pc = "r_idx"
                       /\ con'[c].cur = region[hCons[c].shm].frame_count
       /\ con[c].pc = "r_idx" /\ con'[c].pc # "r_idx" =>
            /\ con'[c].pc = "r_meta"
            /\ con'[c].idx =
                 U32(region[hCons[c].shm].write_idx - 1) % VIDEO_SHM_RING_SIZE
            /\ con'[c].cur = con[c].cur
            /\ UNCHANGED <<kernel, proc, hCons>>
       /\ con[c].pc = "r_meta" /\ con'[c].pc # "r_meta" =>
            /\ con'[c].pc = "r_data"
            /\ con'[c].meta = region[hCons[c].shm].frames[con[c].idx].meta
            /\ con'[c].cur = con[c].cur /\ con'[c].idx = con[c].idx
            /\ UNCHANGED <<kernel, proc, hCons>>
       /\ con[c].pc = "r_data" /\ con'[c].pc # "r_data" =>
            /\ con'[c].pc = "idle"
            /\ con'[c].meta = con[c].meta
            /\ \A i \in 1..con[c].meta.size :
                  con'[c].data[i] = region[hCons[c].shm].frames[con[c].idx].data[i]
            /\ con'[c].ret = con[c].meta.size
            /\ hCons'[c] = [hCons[c] EXCEPT !.last_sequence = con[c].cur]
            /\ UNCHANGED <<kernel, proc>>]_vars

\* C11 witness: a poll copied a frame out while a later publish completed;
\* last_sequence is the count the poll sampled.
C11_Witness ==
  \E c \in Consumers :
    /\ PollCopied(c) /\ hCons[c].shm = 1
    /\ con[c].ret = 1
    /\ hist.reg[1].fc > con[c].fc0
    /\ hCons[c].last_sequence = U32(con[c].fc0)

\* Consumer c's poll or wait returns in this step.
ReadReturns(c) ==
  /\ con'[c].pc = "idle" /\ con'[c].op \in {"read", "wait"}
  /\ con'[c] # con[c]

\* C12: a poll or wait that returns 0 consumed no frame: last_sequence is
\* what it was before the call and nothing was copied out, whatever the
\* size of the frames published, 0 included.
C12_ZeroMeansNoFrame ==
  [][\A c \in Consumers :
       ReadReturns(c) /\ con'[c].ret = 0 =>
          /\ hCons'[c].last_sequence = hCons[c].last_sequence
          /\ con'[c].acq1 = 0]_vars

\* No publish ran concurrently with c's poll: every gate acquisition made
\* by the end of the copy had stored frame_count when the poll sampled it.
PollUndisturbed(c) == con[c].acq1 = con[c].acq0 /\ con[c].acq0 = con[c].fc0

C14_Stats ==
  [][\A c \in Consumers : \A r \in RegionIds \cup {NULL} :
       r = hCons[c].shm /\ con'[c] # con[c] /\ con'[c].op = "stats" =>
         /\ region' = region /\ semVal' = semVal /\ hCons' = hCons
         /\ con[c].pc = "idle" =>
              IF r = NULL
                THEN con'[c] = [IdleCon EXCEPT !.op = "stats", !.ret = -1]
                ELSE /\ con'[c].pc = "s_dropped"
                     /\ con'[c].total = region[r].frame_count
                     /\ con'[c].dropped = 0 /\ con'[c].missed = 0
         /\ con[c].pc = "s_dropped" =>
              /\ con'[c] = [con[c] EXCEPT !.pc = "s_missed", !.dropped = con'[c].dropped]
              /\ con'[c].dropped = region[r].dropped_frames
         /\ con[c].pc = "s_missed" =>
              /\ con'[c] = [con[c] EXCEPT !.pc = "idle", !.ret = 0,
                                          !.missed = con'[c].missed]
              /\ con'[c].missed = Max(0, region[r].frame_count - hCons[c].last_sequence)
    ]_vars

\* C14 witness: a stats call returned 0 with a frame published, a publish
\* dropped and a frame not yet consumed.
C14_Witness ==
  \E c \in Consumers :
    /\ con[c].pc = "idle" /\ con[c].op = "stats" /\ con[c].ret = 0
    /\ con[c].total = 1 /\ con[c].dropped = 1 /\ con[c].missed = 1

\* C15: a wait with timeout_ms > 0 whose sem_timedwait fails with ETIMEDOUT
\* (the read-signal stayed at 0 up to the deadline) returns 0; the step takes
\* no token, copies nothing out and changes neither last_sequence nor the
\* region, whatever frame_count is.
C15_Timeout ==
  [][\A c \in Consumers :
       con[c].pc = "w_sem" /\ con'[c].pc = "idle" /\ con'[c].errno = "ETIMEDOUT" =>
         /\ con[c].tmo > 0 /\ semVal[hCons[c].sem_read] = 0
         /\ con'[c].ret = 0
         /\ semVal' = semVal /\ region' = region /\ hCons' = hCons
         /\ con'[c].meta = ZeroMeta /\ con'[c].data = ZeroData
         /\ con'[c].acq1 = 0
    ]_vars

\* C15 witness: a wait timed out and returned 0 while frame_count differs
\* from the consumer's last_sequence.
C15_Witness ==
  \E c \in Consumers :
    /\ con[c].pc = "idle" /\ con[c].op = "wait" /\ con[c].errno = "ETIMEDOUT"
    /\ con[c].ret = 0
    /\ hCons[c].shm \in RegionIds
    /\ region[hCons[c].shm].frame_count # hCons[c].last_sequence
    /\ semVal[hCons[c].sem_read] = 0

\* C16: a wait that takes a read-signal token takes exactly one; when the
\* read it then makes finds frame_count equal to last_sequence (the token
\* was left by publishes already consumed) the wait returns 0, not an error,
\* and changes neither the region, the handle nor the semaphores.
C16_StaleToken ==
  [][\A c \in Consumers : \A sr \in SemIds : \A r \in RegionIds :
       sr = hCons[c].sem_read /\ r = hCons[c].shm /\ con'[c] # con[c] =>
         /\ con[c].pc = "w_sem" /\ con'[c].pc = "r_sample" =>
              /\ semVal[sr] >= 1
              /\ semVal' = [semVal EXCEPT ![sr] = semVal[sr] - 1]
         /\ con[c].pc = "r_sample" =>
              /\ con[c].op = "wait"
              /\ semVal' = semVal
              /\ region[r].frame_count = hCons[c].last_sequence =>
                   /\ con'[c] = [IdleCon EXCEPT !.op = "wait", !.ret = 0]
                   /\ region' = region /\ hCons' = hCons
    ]_vars

\* C16 witness: a wait took a token and returned 0 with no new frame, and
\* a token is still left.
C16_Witness ==
  \E c \in Consumers :
    /\ con[c].pc = "idle" /\ con[c].op = "wait" /\ con[c].errno = "none"
    /\ con[c].ret = 0
    /\ hCons[c].shm \in RegionIds
    /\ region[hCons[c].shm].frame_count = hCons[c].last_sequence
    /\ hCons[c].last_sequence > 0
    /\ semVal[hCons[c].sem_read] >= 1

\* c is blocked in a wait, and a publish has posted the read-signal since
\* the wait was entered.
PostedWhileBlocked(c) ==
  /\ con[c].pc = "w_sem"
  /\ hCons[c].shm \in RegionIds
  /\ hist.reg[hCons[c].shm].posts > con[c].posts0

\* C17: every consumer blocked in wait when a publish of a frame with
\* size > 0 completes eventually returns from that wait with a non-zero
\* size.
C17_WaitLiveness ==
  \A c \in Consumers :
    PostedWhileBlocked(c) ~>
      (con[c].pc = "idle" /\ con[c].op = "wait" /\ con[c].ret > 0)

\* The statements a publish call at pc has left to execute, at most.
StepsLeft(pc) ==
  CASE pc = "idle"       -> 0
    [] pc = "drop_load"  -> 2
    [] pc = "drop_store" -> 1
    [] pc = "fill_meta"  -> 8
    [] pc = "fill_data"  -> 7
    [] pc = "widx_load"  -> 6
    [] pc = "widx_store" -> 5
    [] pc = "fc_load"    -> 4
    [] pc = "fc_store"   -> 3
    [] pc = "post_write" -> 2
    [] pc = "post_read"  -> 1
    [] OTHER             -> 99

\* The next step of the publish call that thread t is in.
PubStep(t) ==
  \/ \E now \in ClockValues : PubFillMeta(t, now)
  \/ PubGated(t)
  \/ PubDrop(t)

\* C18: a publish call on an initialised handle can always be entered and
\* either takes the gate or goes to record a drop; in a call, the thread's
\* next step is possible whatever the other threads and the semaphores are
\* doing, and every step leaves fewer steps to the return (at most 8).
C18_NeverBlocks ==
  /\ [](\A t \in Threads :
          /\ pub[t].pc # "idle" => ENABLED PubStep(t)
          /\ pub[t].pc = "idle" =>
               \A h \in Producers :
                 ProducerInitialised(h) =>
                   ENABLED (\/ PubAcquire(t, h, FALSE, FALSE, 1, FrameData(1), FrameMeta(1))
                            \/ PubBusy(t, h, FALSE, FALSE, 1, FrameData(1), FrameMeta(1))))
  /\ [][\A t \in Threads :
          pub'[t] # pub[t] =>
            /\ StepsLeft(pub'[t].pc) <= 8
            /\ pub[t].pc # "idle" => StepsLeft(pub'[t].pc) < StepsLeft(pub[t].pc)
            /\ pub[t].pc = "idle" => pub'[t].pc \in {"fill_meta", "drop_load"}
            /\ pub'[t].pc = "idle" => pub'[t].ret = 0]_vars

\* C18 witness: a thread is recording a drop while another thread holds the
\* gate in the middle of its copy and read-signal tokens are left undrained.
C18_Witness ==
  \E t, u \in Threads :
    /\ pub[t].pc = "drop_store" /\ pub[u].pc = "fill_data"
    /\ semVal[hProd[pub[u].h].sem_read] >= 2

\* Producer p's init has returned 0 and nothing has used the channel since.
FreshlyInitialised(p) ==
  /\ ProducerInitialised(p)
  /\ hist.reg[hProd[p].shm].acquired = 0
  /\ hist.reg[hProd[p].shm].inits = 0

\* C19: whatever a previous producer process left under the channel's names,
\* after a producer init that returns 0 the names denote a region that is
\* zero but for magic and version, a write-gate of value 1 and a read-signal
\* of value 0; a consumer that attaches to it before any publish starts with
\* last_sequence = 0 and holds these two semaphores.
C19_StaleRecovery ==
  \A p \in Producers :
    /\ FreshlyInitialised(p) =>
         /\ region[hProd[p].shm] =
              [ZeroRegion EXCEPT !.magic = VIDEO_SHM_MAGIC, !.version = VIDEO_SHM_VERSION]
         /\ semVal[hProd[p].sem_write] = 1
         /\ semVal[hProd[p].sem_read] = 0
         /\ shmNames[hProd[p].shm_name] = hProd[p].shm
         /\ semWNames[hProd[p].sem_write_name] = hProd[p].sem_write
         /\ semRNames[hProd[p].sem_read_name] = hProd[p].sem_read
    /\ \A c \in Consumers :
         /\ ProducerInitialised(p) /\ hist.reg[hProd[p].shm].acquired = 0
         /\ con[c].pc = "idle" /\ con[c].op = "init" /\ con[c].ret = 0
         /\ hCons[c].shm = hProd[p].shm
         => /\ hCons[c].last_sequence = 0
            /\ hCons[c].sem_write = hProd[p].sem_write
            /\ hCons[c].sem_read = hProd[p].sem_read

\* C19 witness: the previous process died holding the gate and left a frame
\* and a read-signal token; the new init returned 0 and a consumer attached.
C19_Witness ==
  \E p \in Producers, c \in Consumers :
    /\ ProducerInitialised(p) /\ hProd[p].shm = 2
    /\ region[1].frame_count >= 1 /\ region[1].write_idx >= 1
    /\ semVal[1] = 0 /\ semVal[2] >= 1
    /\ con[c].pc = "idle" /\ con[c].op = "init" /\ con[c].ret = 0
    /\ hCons[c].shm = 2 /\ hCons[c].last_sequence = 0

\* Every name of channel ch is absent from the name tables.
NoNames(ch) ==
  shmNames[ch] = NoObj /\ semWNames[ch] = NoObj /\ semRNames[ch] = NoObj

\* C20: while a producer is initialised, its three names denote its
\* objects, whatever the consumers did (so a consumer init can open them
\* after a consumer destroy); the destroy of an initialised producer leaves
\* none of the three names; a consumer init entered when the region name is
\* absent returns -1; no step of a consumer changes a name table.
C20_NameOwnership ==
  /\ [](\A p \in Producers :
          ProducerInitialised(p) =>
            /\ shmNames[hProd[p].shm_name] = hProd[p].shm
            /\ semWNames[hProd[p].sem_write_name] = hProd[p].sem_write
            /\ semRNames[hProd[p].sem_read_name] = hProd[p].sem_read)
  /\ [][/\ \A p \in Producers : \A ch \in Channels :
            /\ ppc[p].pc = "d_shm" /\ ppc'[p].pc = "idle"
            /\ hProd[p].shm \in RegionIds /\ hProd[p].shm_name = ch
            => NoNames(ch)'
        /\ \A c \in Consumers :
            con'[c] # con[c] \/ hCons'[c] # hCons[c] =>
              /\ shmNames' = shmNames /\ semWNames' = semWNames
              /\ semRNames' = semRNames
              /\ \A ch \in Channels :
                   /\ con[c].pc = "idle" /\ con'[c].op = "init"
                   /\ hCons'[c].channel_id = ch /\ shmNames[ch] = NoObj
                   => con'[c].pc = "idle" /\ con'[c].ret = -1
       ]_vars

\* C20 witness: a consumer attached and detached, the producer was
\* destroyed, and a consumer init issued afterwards returned -1.
C20_Witness ==
  \E c \in Consumers :
    /\ con[c].pc = "idle" /\ con[c].op = "init" /\ con[c].ret = -1
    /\ \A ch \in Channels : NoNames(ch)
    /\ \A p \in Producers : ppc[p].pc = "idle" /\ hProd[p] = ZeroProducer
    /\ hist.reg[1].inits >= 1 /\ hist.reg[1].destroys >= 1

(***************************************************************************)
(* Properties of consumer init, channels and counters                      *)
(***************************************************************************)
\* C21: a consumer init returns -1 at once when the region name is absent,
\* at the magic check when magic differs from VIDEO_SHM_MAGIC and at the
\* version check when version differs from VIDEO_SHM_VERSION; a step that
\* makes an init return -1 leaves every region (active_readers included)
\* unchanged, and last_sequence is 0 as memset left it.
C21_InitFails ==
  [][\A c \in Consumers :
       con'[c] # con[c] /\ con'[c].op = "init" =>
         /\ \A ch \in Channels :
              /\ con[c].pc = "idle" /\ hCons'[c].channel_id = ch
              /\ shmNames[ch] = NoObj
              => con'[c].pc = "idle" /\ con'[c].ret = -1
         /\ /\ con[c].pc = "ci_magic"
            /\ region[hCons[c].shm].magic # VIDEO_SHM_MAGIC
            => con'[c].pc = "idle" /\ con'[c].ret = -1
         /\ /\ con[c].pc = "ci_version"
            /\ region[hCons[c].shm].version # VIDEO_SHM_VERSION
            => con'[c].pc = "idle" /\ con'[c].ret = -1
         /\ con'[c].pc = "idle" /\ con'[c].ret = -1 =>
              /\ region' = region
              /\ hCons'[c].last_sequence = 0
    ]_vars

\* C21 witness: an init returned -1 on a region whose magic is valid and
\* whose version is not.
C21_Witness ==
  \E c \in Consumers :
    /\ con[c].pc = "idle" /\ con[c].op = "init" /\ con[c].ret = -1
    /\ hCons[c].shm \in RegionIds
    /\ region[hCons[c].shm].magic = VIDEO_SHM_MAGIC
    /\ region[hCons[c].shm].version # VIDEO_SHM_VERSION
    /\ region[hCons[c].shm].active_readers = 0
    /\ proc[PidC(c)].maps[hCons[c].shm] = 0

\* What channel j owns: its three name-table entries and, for the objects
\* they denote, the region and the values of the two semaphores.
ChannelState(j) ==
  <<shmNames[j], semWNames[j], semRNames[j],
    IF shmNames[j] = NoObj THEN ZeroRegion ELSE region[shmNames[j]],
    IF semWNames[j] = NoObj THEN 0 ELSE semVal[semWNames[j]],
    IF semRNames[j] = NoObj THEN 0 ELSE semVal[semRNames[j]]>>

\* The step is a step of an operation on channel j: of a producer handle or
\* a consumer handle that carries the names of j before or after it.
StepOnChannel(j) ==
  \/ \E p \in Producers :
       /\ \/ hProd[p].shm_name # NoName /\ hProd[p].channel_id = j
          \/ hProd'[p].shm_name # NoName /\ hProd'[p].channel_id = j
       /\ \/ ppc'[p] # ppc[p]
          \/ hProd'[p] # hProd[p]
          \/ \E t \in Threads : pub'[t] # pub[t] /\ (pub[t].h = p \/ pub'[t].h = p)
  \/ \E c \in Consumers :
       /\ \/ hCons[c].shm_name # NoName /\ hCons[c].channel_id = j
          \/ hCons'[c].shm_name # NoName /\ hCons'[c].channel_id = j
       /\ con'[c] # con[c] \/ hCons'[c] # hCons[c]

\* C22: handles of different channels carry different region and semaphore
\* names, and a step that changes what channel j owns (region contents and
\* counters, write-gate, read-signal, name-table entries) is a step of an
\* operation on channel j.
C22_ChannelIsolation ==
  /\ [](\A p \in Producers, c \in Consumers :
          /\ hProd[p].shm_name # NoName
          /\ hCons[c].shm_name # NoName
          /\ hProd[p].channel_id # hCons[c].channel_id
          => /\ hProd[p].shm_name # hCons[c].shm_name
             /\ hProd[p].sem_write_name # hCons[c].sem_write_name
             /\ hProd[p].sem_read_name # hCons[c].sem_read_name)
  /\ [][\A j \in ChannelIds :
          ChannelState(j)' # ChannelState(j) => StepOnChannel(j)]_vars

\* C22 witness: both channels have a region with a frame in it, each with
\* its own semaphores, and a consumer attached to channel 1 has the frame.
C22_Witness ==
  \E c \in Consumers :
    /\ shmNames[0] # NoObj /\ shmNames[1] # NoObj
    /\ region[shmNames[0]].frame_count = 1 /\ region[shmNames[1]].frame_count = 1
    /\ semWNames[0] # semWNames[1] /\ semRNames[0] # semRNames[1]
    /\ hCons[c].shm = shmNames[1] /\ hCons[c].channel_id = 1
    /\ region[shmNames[1]].active_readers = 1
    /\ hCons[c].last_sequence = 1 /\ con[c].ret = 1

\* C23: a poll made after the n-th publish, with no publish concurrent to
\* it, returns the size of that publish and its payload bytes, and metadata
\* equal to the caller's in is_keyframe, codec, width, height and fps, with
\* size the size argument, sequence the producer's n - 1, and timestamp_ms
\* the caller's when that is not 0 and a clock value, not 0, when it is.
C23_RoundTrip ==
  \A c \in Consumers :
    PollCopied(c) /\ PollUndisturbed(c) =>
      /\ con[c].ret \in 1..VIDEO_SHM_MAX_FRAME_SIZE
      /\ con[c].ret = con[c].meta.height
      /\ con[c].data = Payload(con[c].fc0, con[c].ret)
      /\ \E m \in CallerMetas :
           /\ m.timestamp_ms # 0 =>
                con[c].meta = [RoundMeta(m, con[c].fc0, con[c].ret) EXCEPT
                                 !.size = con[c].ret,
                                 !.sequence = U32(con[c].fc0 - 1)]
           /\ m.timestamp_ms = 0 =>
                /\ con[c].meta.timestamp_ms \in ClockValues \ {0}
                /\ con[c].meta = [RoundMeta(m, con[c].fc0, con[c].ret) EXCEPT
                                    !.size = con[c].ret,
                                    !.sequence = U32(con[c].fc0 - 1),
                                    !.timestamp_ms = con[c].meta.timestamp_ms]

\* C23 witness: the second publish carried a full-size payload and caller
\* metadata with timestamp_ms = 0 and another size field; the poll returned it.
C23_Witness ==
  \E c \in Consumers :
    /\ PollCopied(c) /\ PollUndisturbed(c)
    /\ con[c].fc0 = 2 /\ con[c].ret = VIDEO_SHM_MAX_FRAME_SIZE
    /\ con[c].meta.is_keyframe = MetaKey.is_keyframe
    /\ MetaKey.size # VIDEO_SHM_MAX_FRAME_SIZE /\ MetaKey.timestamp_ms = 0
    /\ con[c].meta.timestamp_ms # 0

\* C24: a step changes write_idx or frame_count of a region only by +1
\* modulo 2^32, one of the two at a time, and only as the store of a publish
\* that acquired the write-gate and has not released it (the gate is 0); a
\* rejected or dropped publish and a consumer step change neither.
C24_CountersStep ==
  [][\A r \in RegionIds :
       region'[r].write_idx # region[r].write_idx
         \/ region'[r].frame_count # region[r].frame_count =>
       /\ \/ /\ region'[r].write_idx = U32(region[r].write_idx + 1)
             /\ region'[r].frame_count = region[r].frame_count
          \/ /\ region'[r].frame_count = U32(region[r].frame_count + 1)
             /\ region'[r].write_idx = region[r].write_idx
       /\ \E t \in Threads :
            /\ pub[t].pc \in {"widx_store", "fc_store"} /\ pub'[t] # pub[t]
            /\ hProd[pub[t].h].shm = r
            /\ pub[t].ord = hist.reg[r].acquired
            /\ hist.reg[r].released = hist.reg[r].acquired - 1
            /\ semVal[hProd[pub[t].h].sem_write] = 0
       /\ con' = con /\ hCons' = hCons
    ]_vars

\* C24 witness: write_idx has wrapped to 0 while frame_count is still
\* 2^32 - 1, publishes were dropped, and another thread is on the drop path.
C24_Witness ==
  \E r \in RegionIds, t \in Threads :
    /\ hist.reg[r].widx = UINT32_MOD /\ region[r].write_idx = 0
    /\ region[r].frame_count = UINT32_MOD - 1
    /\ hist.reg[r].dropped >= 1
    /\ pub[t].pc = "drop_store"

\* The frames published on c's region since c last stored a sample of
\* frame_count in last_sequence.
PublishedSince(c) == hist.reg[hCons[c].shm].fc - hist.seen[c]

\* The step of stats that loads frame_count and stores *missed_frames.
StatsMissedStep(c) ==
  con[c].pc = "s_missed" /\ con'[c].pc = "idle" /\ con'[c].op = "stats"

\* C25 as stated: whenever fewer than 2^w frames were published since the
\* consumer last updated last_sequence, stats reports exactly that number
\* as missed, frame_count having wrapped below last_sequence or not.
C25_MissedAcrossWrap ==
  [][\A c \in Consumers :
       StatsMissedStep(c) /\ PublishedSince(c) < UINT32_MOD =>
         con'[c].missed = PublishedSince(c)]_vars

\* C25 amended: with fewer than 2^w frames published since the consumer
\* last updated last_sequence, stats reports exactly that number as missed
\* while frame_count is numerically not below last_sequence, and reports 0
\* once frame_count has wrapped below last_sequence.
C25_MissedUpToWrap ==
  [][\A c \in Consumers :
       StatsMissedStep(c) /\ PublishedSince(c) < UINT32_MOD =>
         /\ hCons[c].last_sequence = U32(hist.seen[c])
         /\ IF region[hCons[c].shm].frame_count >= hCons[c].last_sequence
              THEN con'[c].missed = PublishedSince(c)
              ELSE con'[c].missed = 0 /\ PublishedSince(c) > 0]_vars

\* C25 witness: stats returned missed = 0 with frames published since the
\* consumer's last update and frame_count wrapped below last_sequence.
C25_Witness ==
  \E c \in Consumers :
    /\ con[c].pc = "idle" /\ con[c].op = "stats" /\ con[c].ret = 0
    /\ con[c].missed = 0
    /\ PublishedSince(c) \in 1..(UINT32_MOD - 1)
    /\ region[hCons[c].shm].frame_count < hCons[c].last_sequence
    /\ hist.seen[c] > hist.att[c]
(***************************************************************************)
(* Properties of the semaphores and of what each side writes               *)
(***************************************************************************)
\* The read-signal semaphores a name or a handle refers to.
ReadSignals ==
  {semRNames[n] : n \in DOMAIN semRNames}
    \cup {hProd[p].sem_read : p \in Producers}
    \cup {hCons[c].sem_read : c \in Consumers}

\* A step adds d to the read-signals of S and leaves the others as they are.
ReadSignalsStep(S, d) ==
  \A s \in ReadSignals \cap SemIds :
    semVal'[s] = IF s \in S THEN semVal[s] + d ELSE semVal[s]

\* C26: the value of a read-signal is the number of publishes that posted
\* it minus the number of waits that took a token of it; a publish posts it
\* exactly once, in the step that returns after the gate was acquired and
\* released, and does not return otherwise; a rejected or dropped publish
\* posts nothing;
\* a wait that wakes takes exactly one token and the read it goes on to
\* takes none; a timed-out or failed wait, a poll and stats take none.
C26_ReadSignal ==
  /\ [](\A s \in ReadSignals \cap SemIds :
          semVal[s] = hist.posted[s] - hist.taken[s])
  /\ [][/\ \A t \in Threads :
            pub'[t] # pub[t] =>
              /\ IF pub[t].pc = "post_read"
                   THEN /\ pub'[t].pc = "idle" /\ pub'[t].ret = 0
                        /\ pub[t].ord <= hist.reg[PubRegion(t)].released
                        /\ ReadSignalsStep({hProd[pub[t].h].sem_read}, 1)
                   ELSE ReadSignalsStep({}, 0)
              /\ pub'[t].pc = "idle" =>
                   pub[t].pc \in {"idle", "drop_store", "post_read"}
        /\ \A c \in Consumers :
            con'[c] # con[c] /\ con'[c].op \in {"read", "wait", "stats"} =>
              IF con[c].pc = "w_sem" /\ con'[c].pc = "r_sample"
                THEN /\ semVal[hCons[c].sem_read] > 0
                     /\ ReadSignalsStep({hCons[c].sem_read}, -1)
                ELSE ReadSignalsStep({}, 0)
     ]_vars

\* C26 witness: one publish posted the read-signal and another was
\* dropped, a wait took the token, and a later wait timed out with the
\* read-signal at 0.
C26_Witness ==
  \E c \in Consumers :
    /\ hCons[c].sem_read \in SemIds
    /\ hist.posted[hCons[c].sem_read] = 1
    /\ hist.taken[hCons[c].sem_read] = 1
    /\ semVal[hCons[c].sem_read] = 0
    /\ con[c].pc = "idle" /\ con[c].op = "wait" /\ con[c].errno = "ETIMEDOUT"
    /\ \E r \in RegionIds : hist.reg[r].dropped >= 1

\* The positions of a publish from its successful sem_trywait to its
\* sem_post of the write-gate: the slot write and the two increments.
GatedPcs ==
  {"fill_meta", "fill_data", "widx_load", "widx_store", "fc_load", "fc_store",
   "post_write"}

\* The threads whose publish on handle p is in the gated section.
InSection(p) == {t \in Threads : pub[t].pc \in GatedPcs /\ pub[t].h = p}

\* C27: with several threads publishing on one producer handle the
\* write-gate is 0 or 1; it is 0 exactly while one publish is between its
\* successful sem_trywait and its sem_post of the gate, and 1 while none
\* is; at most one publish is in that section; a publish that acquired the
\* gate returns only after it released it.
C27_GateExclusion ==
  /\ [](\A p \in Producers :
          hProd[p].sem_write \in SemIds =>
            /\ semVal[hProd[p].sem_write] \in {0, 1}
            /\ Cardinality(InSection(p)) <= 1
            /\ semVal[hProd[p].sem_write] = 0 <=> Cardinality(InSection(p)) = 1
            /\ Cardinality(InSection(p)) =
                 hist.reg[hProd[p].shm].acquired - hist.reg[hProd[p].shm].released)
  /\ [][\A t \in Threads :
         /\ pub[t].pc \in GatedPcs /\ pub'[t] # pub[t] =>
              /\ pub'[t].pc # "idle"
              /\ pub'[t].pc \in GatedPcs \/ pub[t].pc = "post_write"
         /\ pub[t].pc = "post_write" /\ pub'[t] # pub[t] =>
              /\ semVal[hProd[pub[t].h].sem_write] = 0
              /\ semVal'[hProd[pub[t].h].sem_write] = 1
              /\ pub'[t].pc = "post_read"
     ]_vars

\* C27 witness: one publish has completed, a later one holds the gate at
\* the frame_count store, and a third thread found the gate taken.
C27_Witness ==
  \E p \in Producers, t, u \in Threads :
    /\ hProd[p].sem_write \in SemIds /\ semVal[hProd[p].sem_write] = 0
    /\ pub[t].pc = "fc_store" /\ pub[t].h = p /\ pub[t].ord = 2
    /\ pub[u].pc = "drop_load" /\ pub[u].h = p
    /\ hist.reg[hProd[p].shm].released = 1

\* A step in which an init call on producer handle p returns -1.
PInitFails(p) ==
  ppc[p].pc \notin {"idle", "d_shm"} /\ ppc'[p].pc = "idle" /\ ppc'[p].ret = -1

\* A step in which an init call on consumer c returns -1.
CInitFails(c) ==
  /\ con[c].pc = "idle" \/ con[c].op = "init"
  /\ con'[c] # con[c]
  /\ con'[c].pc = "idle" /\ con'[c].op = "init" /\ con'[c].ret = -1

\* C28: when a producer init or a consumer init returns -1, whatever step
\* failed, its process has open exactly what it had open when the call was
\* entered: no descriptor, mapping or semaphore handle of the call is left;
\* after a failed producer init none of the three names of the channel
\* refers to an object; a failed consumer init changes no name and nothing
\* in a region.
C28_InitFailureReleases ==
  [][/\ \A p \in Producers :
          PInitFails(p) =>
            /\ proc'[PidP(p)] = hist.entry[PidP(p)]
            /\ shmNames'[hProd[p].shm_name] = NoObj
            /\ semWNames'[hProd[p].sem_write_name] = NoObj
            /\ semRNames'[hProd[p].sem_read_name] = NoObj
     /\ \A c \in Consumers :
          CInitFails(c) =>
            /\ proc'[PidC(c)] = IF con[c].pc = "idle" THEN proc[PidC(c)]
                                                      ELSE hist.entry[PidC(c)]
            /\ shmNames' = shmNames /\ semWNames' = semWNames
            /\ semRNames' = semRNames /\ region' = region
    ]_vars

\* C28 witness: a consumer init failed at the sem_open of the read-signal,
\* after it had opened the descriptor, the mapping and the write-gate, and
\* a producer init has failed after it had mapped a region.
C28_Witness ==
  \E c \in Consumers, p \in Producers :
    /\ con[c].pc = "idle" /\ con[c].op = "init" /\ con[c].ret = -1
    /\ hCons[c].shm \in RegionIds /\ hCons[c].sem_write \in SemIds
    /\ hCons[c].sem_read = SEM_FAILED
    /\ proc[PidC(c)] = hist.entry[PidC(c)]
    /\ ppc[p].pc = "idle" /\ ppc[p].ret = -1 /\ hProd[p].shm \in RegionIds
    /\ proc[PidP(p)] = hist.entry[PidP(p)]

\* The write-gate semaphores a name or a handle refers to.
WriteGates ==
  ({semWNames[n] : n \in DOMAIN semWNames}
     \cup {hProd[p].sem_write : p \in Producers}
     \cup {hCons[c].sem_write : c \in Consumers}) \cap SemIds

\* C29: read_idx is 0 in every region; a step of a consumer call changes
\* no write-gate and leaves every region as it is but for active_readers;
\* a step of poll, wait or stats leaves the regions unchanged; init changes
\* active_readers by +1 in its last step only and destroy by -1; the step
\* changes neither the handle nor the call state of another consumer, so
\* what another consumer's poll returns (decided by the region and by its
\* own last_sequence) is not changed by it.
C29_ConsumersWriteNothing ==
  /\ [](\A r \in RegionIds : region[r].read_idx = 0)
  /\ [][\A c \in Consumers :
         con'[c] # con[c] \/ hCons'[c] # hCons[c] =>
           /\ \A s \in WriteGates : semVal'[s] = semVal[s]
           /\ \A r \in RegionIds :
                region'[r] = [region[r] EXCEPT !.active_readers = region'[r].active_readers]
           /\ con'[c].op \in {"read", "wait", "stats"} => region' = region
           /\ region' # region =>
                \/ /\ con[c].pc = "ci_count" /\ con'[c].op = "init" /\ con'[c].ret = 0
                   /\ region'[hCons[c].shm].active_readers =
                        U32(region[hCons[c].shm].active_readers + 1)
                \/ /\ con'[c].op = "destroy"
                   /\ region'[hCons[c].shm].active_readers =
                        U32(region[hCons[c].shm].active_readers - 1)
           /\ \A d \in Consumers \ {c} : hCons'[d] = hCons[d] /\ con'[d] = con[d]
           /\ hProd' = hProd /\ pub' = pub /\ ppc' = ppc
     ]_vars

\* C29 witness: two consumers are attached; one polled the frame and asked
\* for statistics, and the other's later poll returned the same frame.
C29_Witness ==
  \E c, d \in Consumers :
    /\ c # d /\ hCons[c].shm \in RegionIds /\ hCons[d].shm = hCons[c].shm
    /\ region[hCons[c].shm].active_readers = 2
    /\ region[hCons[c].shm].frame_count = 1
    /\ hist.att[c] = 0 /\ hist.att[d] = 0
    /\ hCons[c].last_sequence = 1 /\ hCons[d].last_sequence = 1
    /\ con[c].pc = "idle" /\ con[c].op = "stats" /\ con[c].missed = 0
    /\ con[d].pc = "idle" /\ con[d].op = "read" /\ con[d].ret = 1
    /\ con[d].meta.sequence = 0

(***************************************************************************)
(* Properties of the size a poll copies                                    *)
(***************************************************************************)
\* Line 302: the length of the memcpy into the caller's buffer is the
\* meta->size that line 301 copied out of the slot.
BytesCopied(c) == con[c].meta.size

\* C30: a poll that copied a frame out has copied at most MAX_FRAME_SIZE
\* bytes into the caller's buffer and returns at most MAX_FRAME_SIZE,
\* whatever the slot's meta.size held when it was read.
C30_PollClampsSize ==
  \A c \in Consumers :
    con[c].pc = "idle" /\ con[c].op \in {"read", "wait"} /\ con[c].wmeta > 0 =>
      /\ BytesCopied(c) <= VIDEO_SHM_MAX_FRAME_SIZE
      /\ con[c].ret <= VIDEO_SHM_MAX_FRAME_SIZE

(***************************************************************************)
(* Properties of failures, sequence numbers and re-initialisation          *)
(***************************************************************************)
\* C31: when sem_wait (timeout_ms = 0) or sem_timedwait (timeout_ms > 0)
\* fails with an errno other than ETIMEDOUT, wait returns -1 in that step;
\* the step copies nothing out and changes neither the region, the handle
\* (last_sequence) nor a semaphore, so a token and an unconsumed frame that
\* were there are still there.
C31_WaitInterrupted ==
  [][\A c \in Consumers :
       con[c].pc = "w_sem" /\ con'[c].pc = "idle" /\ con'[c].errno # "ETIMEDOUT" =>
         /\ con[c].tmo \in Timeouts
         /\ con'[c] = [IdleCon EXCEPT !.op = "wait", !.errno = "EINTR", !.ret = -1]
         /\ semVal' = semVal /\ region' = region /\ hCons' = hCons
         /\ hist' = hist
    ]_vars

\* C31 witness: a wait was interrupted and returned -1 while a token was
\* on the read-signal and a published frame was not yet consumed.
C31_Witness ==
  \E c \in Consumers :
    /\ con[c].pc = "idle" /\ con[c].op = "wait" /\ con[c].errno = "EINTR"
    /\ con[c].ret = -1
    /\ hCons[c].shm \in RegionIds /\ hCons[c].sem_read \in SemIds
    /\ semVal[hCons[c].sem_read] >= 1
    /\ region[hCons[c].shm].frame_count # hCons[c].last_sequence

\* The slots of region r that a publish has written.
Written(r) == {s \in Slots : region[r].frames[s].wmeta > 0}

\* C32: with several threads publishing on one handle, producer->sequence
\* changes only in the step of a publish that holds the write-gate (the
\* gate is 0 and the thread is the one in the gated section); that step
\* stores the counter's value, which equals write_idx, as the sequence of
\* the slot at write_idx and adds 1 to the counter.  The frames in the
\* ring carry pairwise distinct sequence numbers, and the frame that
\* entered the ring next after another carries its sequence plus 1.
C32_SequenceUnderGate ==
  /\ [](\A r \in RegionIds : \A s1, s2 \in Written(r) :
          LET f1 == region[r].frames[s1]
              f2 == region[r].frames[s2]
          IN /\ s1 # s2 => f1.meta.sequence # f2.meta.sequence
             /\ f2.wmeta = f1.wmeta + 1 => f2.meta.sequence = U32(f1.meta.sequence + 1))
  /\ [][\A p \in Producers :
         /\ hProd[p].shm \in RegionIds /\ hProd'[p].shm = hProd[p].shm
         /\ hProd'[p].sequence # hProd[p].sequence
         => \E t \in Threads :
              LET r == hProd[p].shm
                  idx == region[r].write_idx % VIDEO_SHM_RING_SIZE
              IN /\ pub[t].pc = "fill_meta" /\ pub'[t].pc = PubNextPc("fill_meta")
                 /\ pub[t].h = p
                 /\ semVal[hProd[p].sem_write] = 0
                 /\ \A u \in Threads \ {t} : pub[u].pc \notin GatedPcs
                 /\ hProd[p].sequence = region[r].write_idx
                 /\ region'[r].frames[idx].meta.sequence = region[r].write_idx
                 /\ hProd'[p].sequence = U32(hProd[p].sequence + 1)
     ]_vars

\* C32 witness: three threads are in publish calls on one handle, two of
\* them have entered the ring one after the other, and the third found the
\* gate taken.
C32_Witness ==
  \E p \in Producers, t, u, v \in Threads :
    /\ hProd[p].shm \in RegionIds
    /\ pub[t].pc = "post_read" /\ pub[t].h = p /\ pub[t].ord = 1
    /\ pub[u].pc = "fill_data" /\ pub[u].h = p /\ pub[u].ord = 2
    /\ pub[v].pc = "drop_load" /\ pub[v].h = p
    /\ region[hProd[p].shm].frames[0].meta.sequence = 0
    /\ region[hProd[p].shm].frames[1].meta.sequence = 1
    /\ hProd[p].sequence = 2

\* The threads whose publish on handle p is between its two increments:
\* write_idx stored (line 153), frame_count not yet stored (line 154).
BetweenIncrements(p) ==
  {t \in Threads : pub[t].h = p /\ pub[t].pc \in {"fc_load", "fc_store"}}

\* C33: from the memset of producer init to destroy, write_idx -
\* frame_count modulo 2^32 is 0 or 1 in the producer's region; it is 1
\* exactly while a publish is between its two increments, and then the
\* publish holds the write-gate; it is 0 whenever the write-gate is free.
C33_CountersInStep ==
  \A p \in Producers :
    hProd[p].shm \in RegionIds =>
      LET r == hProd[p].shm
          d == U32(region[r].write_idx - region[r].frame_count)
      IN /\ d \in {0, 1}
         /\ d = 1 <=> BetweenIncrements(p) # {}
         /\ hProd[p].sem_write \in SemIds =>
              /\ d = 1 => semVal[hProd[p].sem_write] = 0
              /\ semVal[hProd[p].sem_write] = 1 => d = 0
         /\ U32(hist.reg[r].widx) = region[r].write_idx
         /\ U32(hist.reg[r].fc) = region[r].frame_count

\* C33 witness: write_idx has wrapped to 0 while frame_count is still
\* 2^w - 1, in a publish that holds the gate between its increments.
C33_Witness ==
  \E p \in Producers, t \in Threads :
    /\ hProd[p].shm \in RegionIds
    /\ region[hProd[p].shm].write_idx = 0
    /\ region[hProd[p].shm].frame_count = UINT32_MOD - 1
    /\ pub[t].pc = "fc_store" /\ pub[t].h = p
    /\ semVal[hProd[p].sem_write] = 0

\* A step in which a read of consumer c (a poll, or the read of a wait)
\* returns a frame.
ReturnsFrame(c) == con[c].pc = "r_data" /\ con'[c].pc = "idle"

\* C34: with one producer, a read that returns a frame after an earlier
\* read of the same attachment returned one returns another frame, whose
\* sequence number is greater.
C34_NoDuplicate ==
  [][\A c \in Consumers :
       ReturnsFrame(c) /\ hist.got[c].frame > 0 =>
         /\ con[c].wmeta # hist.got[c].frame
         /\ con[c].meta.sequence > hist.got[c].sequence]_vars

(***************************************************************************)
(* Properties of the slot indices across the wrap of write_idx             *)
(***************************************************************************)
\* The slot holding the metadata of the most recent publish on region r
\* that has stored write_idx.
PrevSlot(r) ==
  CHOOSE s \in Slots : region[r].frames[s].wmeta = hist.reg[r].widx

\* A step in which publish t stores write_idx.
StoresWriteIdx(t) == pub[t].pc = "widx_store" /\ pub'[t].pc # "widx_store"

\* When a publish stores write_idx, the index the read computes from the
\* stored value is the slot the publish wrote.
LatestIsPrevSlot ==
  \A t \in Threads :
    StoresWriteIdx(t) =>
      LatestSlot(region'[PubRegion(t)].write_idx) = pub[t].idx

\* A step in which publish t picks its slot.
PicksSlot(t) == pub[t].pc = "fill_meta" /\ pub'[t].pc # "fill_meta"

\* C35 as stated: the latest-slot index of the read is the slot of the most
\* recent completed publish, also when write_idx has just wrapped to 0, and
\* every publish writes the slot that follows cyclically the slot of the
\* previous publish.
C35_SlotsCyclicAcrossWrap ==
  /\ [][LatestIsPrevSlot]_vars
  /\ [][\A t \in Threads :
          PicksSlot(t) /\ hist.reg[PubRegion(t)].widx > 0 =>
            pub'[t].idx = (PrevSlot(PubRegion(t)) + 1) % VIDEO_SHM_RING_SIZE]_vars

\* C35: the latest-slot index of the read is the slot of the most recent
\* completed publish, also when write_idx has just wrapped to 0; every
\* publish writes the slot that follows cyclically the slot of the previous
\* publish, except the publish that follows the wrap of write_idx to 0,
\* which writes slot 0.
C35_SlotsCyclicUpToWrap ==
  /\ [][LatestIsPrevSlot]_vars
  /\ [][\A t \in Threads :
          PicksSlot(t) /\ hist.reg[PubRegion(t)].widx > 0 =>
            pub'[t].idx = IF region[PubRegion(t)].write_idx = 0 THEN 0
                          ELSE (PrevSlot(PubRegion(t)) + 1) % VIDEO_SHM_RING_SIZE]_vars

\* C35 witness: write_idx has wrapped to 0, the slot of the last publish
\* before the wrap is not the last slot of the ring, and the publish after
\* the wrap has picked slot 0.
C35_Witness ==
  \E t \in Threads :
    /\ pub[t].pc = "fill_data" /\ pub[t].idx = 0
    /\ hist.reg[PubRegion(t)].widx = UINT32_MOD
    /\ region[PubRegion(t)].write_idx = 0
    /\ PrevSlot(PubRegion(t)) = (UINT32_MOD - 1) % VIDEO_SHM_RING_SIZE
    /\ PrevSlot(PubRegion(t)) # VIDEO_SHM_RING_SIZE - 1

(***************************************************************************)
(* Calls on a handle whose init returned failure.  A failing init leaves   *)
(* the shm field as it was when the failure was met: MAP_FAILED after a    *)
(* failed mmap, the address of the mapping it has unmapped after a failed  *)
(* header check or sem_open.  The processes of the model map nothing but   *)
(* the regions of their handles, so nothing is mapped again at such an     *)
(* address: a load or store through the field ends the process with        *)
(* SIGSEGV (pc "fault").                                                   *)
(***************************************************************************)
CallsOnFailed == {"destroy", "read", "stats"}

\* Lines 383-384 (destroy), 285-291 (read), 358-364 (stats): the test
\* against NULL passes and the call goes through consumer->shm.
CUseDangling(c, op) ==
  /\ con[c].pc = "idle"
  /\ Dangling(PidC(c), hCons[c].shm)
  /\ CSet(c, [IdleCon EXCEPT !.op = op, !.pc = "fault"])
  /\ UNCHANGED <<kernel, proc, hProd, hCons, ppc, pub, hist>>

\* Lines 318-345 on such a handle: sem_read is SEM_FAILED, and the wait on
\* it either faults or fails with EINVAL, for which wait returns -1.
CWaitDangling(c, faults) ==
  /\ con[c].pc = "idle"
  /\ Dangling(PidC(c), hCons[c].shm)
  /\ hCons[c].sem_read = SEM_FAILED
  /\ IF faults THEN CSet(c, [IdleCon EXCEPT !.op = "wait", !.pc = "fault"])
               ELSE CSet(c, [IdleCon EXCEPT !.op = "wait", !.errno = "EINVAL", !.ret = -1])
  /\ UNCHANGED <<kernel, proc, hProd, hCons, ppc, pub, hist>>

\* Lines 166-169 on such a handle: the log line of destroy reads
\* producer->shm->frame_count.
PDestroyDangling(p) ==
  /\ ppc[p].pc = "idle"
  /\ NoPublishOn(p)
  /\ Dangling(PidP(p), hProd[p].shm)
  /\ PSet(p, "fault", 0)
  /\ UNCHANGED <<kernel, proc, hProd, hCons, pub, con, hist>>

\* Lines 120-138 on such a handle: the checks pass, and whatever
\* sem_trywait answers the call goes through producer->shm (line 133 or
\* line 138).
PubDangling(t, h, size) ==
  /\ pub[t].pc = "idle"
  /\ ppc[h].pc = "idle"
  /\ Dangling(PidP(h), hProd[h].shm)
  /\ ~FrameTooLarge(size)
  /\ pub' = [pub EXCEPT ![t] = [IdlePub EXCEPT !.pc = "fault", !.h = h, !.size = size]]
  /\ PSet(h, "fault", 0)
  /\ UNCHANGED <<kernel, proc, hProd, hCons, con, hist>>

(***************************************************************************)
(* Specification SpecFault: the life of a channel as in SpecLife, with     *)
(* the calls a caller may make on a handle whose init failed.              *)
(***************************************************************************)
NextFault ==
  \/ NextLife
  \/ \E op \in CallsOnFailed : CUseDangling(1, op)
  \/ \E faults \in BOOLEAN : CWaitDangling(1, faults)
  \/ \E p \in Producers : PDestroyDangling(p)
  \/ \E t \in LifeThreads, h \in Producers : PubDangling(t, h, 1)

SpecFault == Init /\ [][NextFault]_vars

\* A handle whose last init call returned failure.
CInitFailed(c) == con[c].pc = "idle" /\ con[c].op = "init" /\ con[c].ret = -1
PInitFailed(p) == ppc[p].pc = "idle" /\ ppc[p].ret = -1

\* C36: after an init that returned failure the handle holds no reference
\* to a region, and no call on a handle goes through a mapping that is not
\* there.
C36_FailedInitHoldsNothing ==
  /\ \A c \in Consumers : CInitFailed(c) => hCons[c].shm = NULL
  /\ \A p \in Producers : PInitFailed(p) => hProd[p].shm = NULL
  /\ \A c \in Consumers : con[c].pc # "fault"
  /\ \A p \in Producers : ppc[p].pc # "fault"

(***************************************************************************)
(* Properties of a consumer init that runs while a producer init runs      *)
(***************************************************************************)
\* Consumer init reached line 267 on handle c: it returns, or has
\* returned, 0.
CInitSucceeded(c) == hCons[c].shm \in RegionIds /\ hCons[c].reader_id # 0

\* C37: a consumer whose init succeeded holds the read-signal and the
\* write-gate of the producer that created the region it mapped, however
\* its init was interleaved with that producer's init and whatever
\* semaphores an earlier producer left under the names.
C37_AttachHoldsProducerSems ==
  \A c \in Consumers, p \in Producers :
    CInitSucceeded(c) /\ ProducerInitialised(p) /\ hProd[p].shm = hCons[c].shm =>
      /\ hCons[c].sem_read = hProd[p].sem_read
      /\ hCons[c].sem_write = hProd[p].sem_write

(***************************************************************************)
(* Properties of a consumer that stays attached while its channel is       *)
(* initialised again                                                       *)
(***************************************************************************)
\* Steps of producer init: the region is mapped (line 66), the write-gate
\* is opened (line 85), the read-signal is opened (line 94).
MapsRegion(p) == ppc[p].pc = "i_map" /\ ppc'[p].pc = "i_zero"
OpensWriteGate(p) == ppc[p].pc = "i_sem_w" /\ ppc'[p].pc = "i_sem_r"
OpensReadSignal(p) == ppc[p].pc = "i_sem_r" /\ ppc'[p].pc = "idle" /\ ppc'[p].ret = 0

\* Consumer c is attached to a region of the channel of producer p that is
\* not the region p created: the channel was initialised again.
LeftBehind(c, p) ==
  /\ CInitSucceeded(c) /\ ProducerInitialised(p)
  /\ hProd[p].channel_id = hCons[c].channel_id
  /\ hProd[p].shm # hCons[c].shm

\* The consumers whose init has counted them in active_readers of region r.
CountedOn(r) ==
  {c \in Consumers : CInitSucceeded(c) /\ hCons[c].shm = r /\ con[c].pc # "ci_count"}

\* C38: a producer init gives its handle a region and semaphores that no
\* consumer attached before holds; the new region counts in active_readers
\* only the consumers attached to it; and while a consumer stays attached
\* to the old region nothing is published into that region, and nothing
\* posts its read-signal unless it is the new producer's.
C38_BoundToOldRegion ==
  /\ [](\A c \in Consumers, p \in Producers :
          LeftBehind(c, p) =>
            region[hProd[p].shm].active_readers = Cardinality(CountedOn(hProd[p].shm)))
  /\ [][\A p \in Producers, c \in Consumers :
          CInitSucceeded(c) =>
            /\ MapsRegion(p) => hProd'[p].shm # hCons[c].shm
            /\ OpensWriteGate(p) => hProd'[p].sem_write # hCons[c].sem_write
            /\ OpensReadSignal(p) => hProd'[p].sem_read # hCons[c].sem_read]_vars
  /\ [][\A c \in Consumers, p \in Producers :
          LeftBehind(c, p) =>
            LET r == hCons[c].shm
            IN /\ region'[r].frames = region[r].frames
               /\ region'[r].frame_count = region[r].frame_count
               /\ region'[r].write_idx = region[r].write_idx
               /\ hCons[c].sem_read # hProd[p].sem_read =>
                    semVal'[hCons[c].sem_read] <= semVal[hCons[c].sem_read]]_vars

\* C38 witness: the consumer, attached to the old region, is blocked in a
\* wait on the old read-signal while the new producer has published a
\* frame and posted the new read-signal, and the new region counts no
\* reader.
C38_Witness ==
  \E c \in Consumers, p \in Producers :
    /\ LeftBehind(c, p)
    /\ hist.reg[hProd[p].shm].posts >= 1
    /\ semVal[hProd[p].sem_read] >= 1
    /\ hCons[c].sem_read # hProd[p].sem_read
    /\ con[c].pc = "w_sem" /\ semVal[hCons[c].sem_read] = 0
    /\ region[hCons[c].shm].active_readers = 1
    /\ region[hProd[p].shm].active_readers = 0

(***************************************************************************)
(* Specification SpecAfter: a producer and a consumer are initialised,     *)
(* used and destroyed, and their handles are used after the destroy.       *)
(***************************************************************************)
MaxAfterCalls == 1                   \* publish calls in SpecAfter

NextAfter ==
  \/ /\ OneProducer
     /\ \E p \in Producers, ch \in Channels : PInitBegin(p, ch)
  \/ \E p \in Producers : PInitStep(p)
  \/ /\ hist.calls < MaxAfterCalls
     /\ \E h \in Producers : PubAcquire(1, h, FALSE, FALSE, 1, FrameData(1), FrameMeta(1))
  \/ \E now \in ClockValues : PubFillMeta(1, now)
  \/ PubGated(1)
  \/ \E h \in Producers : PubReject(1, h, FALSE, FALSE, 1)
  \/ \E p \in Producers : PDestroySems(p)
  \/ \E p \in Producers : PDestroyShm(p)
  \/ /\ hist.opens < MaxOpens
     /\ \E ch \in Channels : Detached(1) /\ ConsumerInit(1, ch)
  \/ CInitStep(1)
  \/ CDestroy(1)
  \/ CReadReject(1, FALSE, FALSE)
  \/ CReadSample(1)
  \/ CReadStep(1)
  \/ \E tmo \in Timeouts : CWaitCall(1, tmo)
  \/ CWaitReject(1, FALSE, FALSE)
  \/ CWaitWake(1)
  \/ CWaitTimeout(1)
  \/ CStatsReject(1)
  \/ CStatsTotal(1)
  \/ CStatsDropped(1)
  \/ CStatsMissed(1)

SpecAfter == Init /\ [][NextAfter]_vars

\* Handle c was attached and destroyed, and has not been initialised since.
DestroyedC(c) ==
  /\ hCons[c] = ZeroConsumer
  /\ \E r \in RegionIds : hist.reg[r].destroys > 0

\* Handle p was initialised and destroyed.
DestroyedP(p) == hProd[p] = ZeroProducer /\ ppc[p].pc = "idle" /\ nextRegion > 1

\* C39: destroy zeroes the handle; on a destroyed handle a publish, a
\* poll, a wait and a stats call return -1 and change no region and no
\* semaphore, and no call short of a new init changes active_readers.
C39_UseAfterDestroy ==
  /\ [](\A c \in Consumers :
          con[c].pc = "idle" /\ con[c].op = "destroy" => hCons[c] = ZeroConsumer)
  /\ [][\A p \in Producers :
          ppc[p].pc = "d_shm" /\ ppc'[p].pc = "idle" => hProd'[p] = ZeroProducer]_vars
  /\ [][\A c \in Consumers :
          DestroyedC(c) /\ con'[c] # con[c] /\ con'[c].op # "init" =>
            /\ con'[c].pc = "idle"
            /\ con'[c].op \in {"read", "wait", "stats"} => con'[c].ret = -1
            /\ region' = region /\ semVal' = semVal
            /\ hCons'[c] = ZeroConsumer]_vars
  /\ [][\A t \in Threads, p \in Producers :
          DestroyedP(p) /\ pub'[t] # pub[t] /\ pub'[t].h = p =>
            /\ pub'[t].pc = "idle" /\ pub'[t].ret = -1
            /\ region' = region /\ semVal' = semVal]_vars

\* C39 witness: both handles were used and destroyed; a publish on the
\* destroyed producer handle and a stats call on the destroyed consumer
\* handle have returned -1, and the region counts no reader.
C39_Witness ==
  /\ DestroyedC(1) /\ con[1].op = "stats" /\ con[1].ret = -1
  /\ DestroyedP(1) /\ pub[1].h = 1 /\ pub[1].ret = -1
  /\ hist.reg[1].posts >= 1 /\ hist.reg[1].inits >= 1
  /\ region[1].active_readers = 0
====
